---- MODULE Spec2Model ----
(***************************************************************************)
(* Part priority scoring engine (emreyesilyurt/script_bank).               *)
(*                                                                         *)
(* A DataFrame is modelled as [columns |-> set of column names,            *)
(* rows |-> sequence of records]; every row carries its pandas index       *)
(* label in the field "index".  A row has every field; a field whose       *)
(* column is not in "columns" holds a blank and is never read.  A null     *)
(* (NaN/None) cell is a name in the row's "nulls" set.                     *)
(*                                                                         *)
(* Floats are fixed-point integers: engineered features and base/boosted   *)
(* scores in units of 1/SCALE, priority_score in units of 1/Cents (the     *)
(* code rounds it to 2 decimals), score_percentile in units of 1/SCALE     *)
(* percent.  Divisions round down, round(2) rounds half to even.           *)
(***************************************************************************)
EXTENDS Integers, Sequences, FiniteSets, TLC

\* Largest number of rows of a batch.
MaxBatch == 3

\* priority_score keeps 2 decimals: units of 1/100.
Cents == 100

\* Resolution of features and scores: ten times finer than the rounded output.
SCALE == 10 * Cents

-----------------------------------------------------------------------------
\* Generic helpers

Range(s) == {s[i] : i \in DOMAIN s}

SeqsUpTo(S, n) == UNION {[1..k -> S] : k \in 0..n}

Max2(a, b) == IF a >= b THEN a ELSE b

Min2(a, b) == IF a <= b THEN a ELSE b

\* The sequence s with every element evaluated.
Strict(s) == SelectSeq(s, LAMBDA x : TRUE)

SeqMax(s) == CHOOSE v \in Range(s) : \A w \in Range(s) : w <= v

SeqMin(s) == CHOOSE v \in Range(s) : \A w \in Range(s) : v <= w

\* A sorted sequence with x inserted.
RECURSIVE Insert(_, _)
Insert(x, s) ==
    IF s = <<>> THEN <<x>>
    ELSE IF x <= Head(s) THEN <<x>> \o s
    ELSE <<Head(s)>> \o Insert(x, Tail(s))

\* The elements of a sequence of integers in non-decreasing order.
RECURSIVE Sorted(_)
Sorted(s) == IF s = <<>> THEN <<>> ELSE Insert(Head(s), Sorted(Tail(s)))

\* n/d rounded to the nearest integer, halves to the even one (d > 0).
RoundDiv(n, d) ==
    LET q == n \div d
        r == n % d
    IN  IF 2 * r < d THEN q
        ELSE IF 2 * r > d THEN q + 1
        ELSE IF q % 2 = 0 THEN q ELSE q + 1

\* numpy percentile (linear interpolation) of a non-empty sorted sequence, q
\* in percent.
Percentile(sorted, q) ==
    LET n  == Len(sorted)
        h  == (n - 1) * q
        lo == (h \div 100) + 1
        hi == Min2(lo + 1, n)
        fr == h % 100
    IN  sorted[lo] + (((sorted[hi] - sorted[lo]) * fr) \div 100)

\* ln(1 + x) in units of 1/SCALE, tabulated on the values the batches hold.
Log1p(x) ==
    CASE x = 0    -> 0
      [] x = 1    -> 693
      [] x = 5    -> 1792
      [] x = 10   -> 2398
      [] x = 50   -> 3932
      [] x = 100  -> 4615
      [] x = 1000 -> 6909

-----------------------------------------------------------------------------
\* Input batches

RawColumns ==
    {"pn", "inventory", "leadtime_weeks", "moq", "demand_all_time",
     "source_type", "datasheet"}

Part(pn, inv, lead, moq, dem, src, nulls) ==
    [pn |-> pn, inventory |-> inv, leadtime_weeks |-> lead, moq |-> moq,
     demand_all_time |-> dem, source_type |-> src, datasheet |-> "url",
     nulls |-> nulls]

\* The part records batches are drawn from.
Parts ==
    { Part("P1", 100, 0, 1, 200, "Authorized", {}),
      Part("P4", 0, 0, 10, 20, "Other", {"datasheet"}),
      Part("P5", 0, 16, 1, 200, "Authorized", {}),
      Part("P6", 5, 8, 1, 0, "Other", {"demand_all_time"}) }

\* The columns of a batch that lacks the optional raw columns.
MinimalColumns == {"pn", "inventory"}

\* The columns of a batch that lacks the leadtime and the source type.
PartialColumns == {"pn", "inventory", "moq", "demand_all_time", "datasheet"}

\* The part records a batch without some columns is drawn from.
MinimalParts == {p \in Parts : p.pn \in {"P1", "P4"}}

Blank(f) == IF f \in {"pn", "source_type", "datasheet"} THEN "" ELSE 0

\* A part record as a row of a frame that has only the columns cs.
Project(p, cs) ==
    [f \in DOMAIN p |->
        IF f = "nulls" THEN p.nulls \cap cs
        ELSE IF f \in cs THEN p[f] ELSE Blank(f)]

\* The columns calculate_scores can add to a frame.
DerivedColumns ==
    {"log_inventory", "log_first_price", "log_moq",
     "inv_leadtime_weeks", "inv_first_price", "inv_moq",
     "is_authorized", "has_datasheet", "in_stock", "immediate_availability",
     "availability_score", "demand_score",
     "base_score", "boosted_score", "priority_score", "score_percentile"}

\* pd.DataFrame(...) with the default RangeIndex.
DataFrame(cs, s) ==
    [columns |-> cs,
     rows |-> [i \in DOMAIN s |->
                 Project(s[i], cs) @@ [index |-> i] @@ [f \in DerivedColumns |-> 0]]]

Batches ==
    {DataFrame(RawColumns, s) : s \in SeqsUpTo(Parts, MaxBatch)}
    \cup {DataFrame(MinimalColumns, s) : s \in SeqsUpTo(MinimalParts, MaxBatch)}
    \cup {DataFrame(PartialColumns, s) : s \in SeqsUpTo(MinimalParts, MaxBatch)}

IsNull(r, f) == f \in r.nulls

\* Series.fillna(0).clip(lower=0) of one cell.
FillClip(r, f) == IF IsNull(r, f) THEN 0 ELSE Max2(r[f], 0)

\* df[name] = values: adds column name, cell i holding values[i], none of them null.
Assign(df, name, values) ==
    [columns |-> df.columns \cup {name},
     rows |-> Strict([i \in DOMAIN df.rows |->
                 [df.rows[i] EXCEPT ![name] = values[i], !.nulls = @ \ {name}]])]

\* df[name] = values where cell i is NaN when isnan[i].
AssignNullable(df, name, values, isnan) ==
    [columns |-> df.columns \cup {name},
     rows |-> [i \in DOMAIN df.rows |->
                 [df.rows[i] EXCEPT ![name] = IF isnan[i] THEN 0 ELSE values[i],
                                    !.nulls = IF isnan[i] THEN @ \cup {name}
                                              ELSE @ \ {name}]]]

\* df[name] as a sequence of cells.
Column(df, name) == Strict([i \in DOMAIN df.rows |-> df.rows[i][name]])

-----------------------------------------------------------------------------
\* FeatureEngineer (src/core/feature_engineer.py)

log_features == <<"inventory", "first_price", "moq">>

inverse_features == <<"leadtime_weeks", "first_price", "moq">>

RECURSIVE LogLoop(_, _)
LogLoop(df, feats) ==
    IF feats = <<>> THEN df
    ELSE LET f == Head(feats)
             next == IF f \in df.columns
                     THEN Assign(df, "log_" \o f,
                                 [i \in DOMAIN df.rows |-> Log1p(FillClip(df.rows[i], f))])
                     ELSE df
         IN  LogLoop(next, Tail(feats))

_create_log_features(df) == LogLoop(df, log_features)

RECURSIVE InverseLoop(_, _)
InverseLoop(df, feats) ==
    IF feats = <<>> THEN df
    ELSE LET f == Head(feats)
             next == IF f \in df.columns
                     THEN Assign(df, "inv_" \o f,
                                 [i \in DOMAIN df.rows |->
                                     SCALE \div (1 + FillClip(df.rows[i], f))])
                     ELSE df
         IN  InverseLoop(next, Tail(feats))

_create_inverse_features(df) == InverseLoop(df, inverse_features)

\* (condition).astype(int), in units of 1/SCALE.
AsInt(b) == IF b THEN SCALE ELSE 0

_create_binary_features(df) ==
    LET d1 == IF "source_type" \in df.columns
              THEN Assign(df, "is_authorized",
                     [i \in DOMAIN df.rows |->
                        AsInt(~IsNull(df.rows[i], "source_type")
                              /\ df.rows[i].source_type = "Authorized")])
              ELSE df
        d2 == IF "datasheet" \in d1.columns
              THEN Assign(d1, "has_datasheet",
                     [i \in DOMAIN d1.rows |-> AsInt(~IsNull(d1.rows[i], "datasheet"))])
              ELSE d1
        d3 == IF "inventory" \in d2.columns
              THEN Assign(d2, "in_stock",
                     [i \in DOMAIN d2.rows |->
                        AsInt(~IsNull(d2.rows[i], "inventory") /\ d2.rows[i].inventory > 0)])
              ELSE d2
        d4 == IF "leadtime_weeks" \in d3.columns
              THEN Assign(d3, "immediate_availability",
                     [i \in DOMAIN d3.rows |->
                        AsInt(~IsNull(d3.rows[i], "leadtime_weeks")
                              /\ d3.rows[i].leadtime_weeks = 0)])
              ELSE d3
    IN  d4

\* df.get(name, 0) of row r for a feature column.
GetOr0(df, r, name) == IF name \in df.columns THEN r[name] ELSE 0

_create_composite_features(df) ==
    LET ratio(r) == Min2((r.inventory * SCALE) \div Max2(r.moq, 1), 10 * SCALE)
        avail(r) == ((GetOr0(df, r, "in_stock") * 5) \div 10)
                    + ((GetOr0(df, r, "immediate_availability") * 3) \div 10)
                    + ((ratio(r) * 2) \div 10)
        d1 == IF {"inventory", "moq"} \subseteq df.columns
              THEN AssignNullable(df, "availability_score",
                     [i \in DOMAIN df.rows |->
                        Max2(0, Min2(avail(df.rows[i]), 2 * SCALE))],
                     [i \in DOMAIN df.rows |->
                        IsNull(df.rows[i], "inventory") \/ IsNull(df.rows[i], "moq")])
              ELSE df
        d2 == IF "demand_all_time" \in d1.columns
              THEN Assign(d1, "demand_score",
                     [i \in DOMAIN d1.rows |->
                        IF IsNull(d1.rows[i], "demand_all_time") THEN 0
                        ELSE d1.rows[i].demand_all_time * SCALE])
              ELSE d1
    IN  d2

\* The column names that start with 'log_', 'inv_', 'availability_' or 'demand_':
\* the raw column demand_all_time is one of them.
PrefixedColumns ==
    <<"log_inventory", "log_first_price", "log_moq",
      "inv_leadtime_weeks", "inv_first_price", "inv_moq",
      "availability_score", "demand_score", "demand_all_time">>

\* Cell of a column about to be scaled, NaN filled with 0, in units of 1/SCALE.
Filled(r, f) ==
    IF IsNull(r, f) THEN 0
    ELSE IF f = "demand_all_time" THEN r[f] * SCALE ELSE r[f]

\* sklearn RobustScaler.fit_transform of one column: (x - median) / IQR, the
\* IQR replaced by 1 when it is 0.
RobustScale(col) ==
    LET sorted == Sorted(col)
        center == Percentile(sorted, 50)
        iqr    == Percentile(sorted, 75) - Percentile(sorted, 25)
        scale  == IF iqr = 0 THEN SCALE ELSE iqr
    IN  Strict([i \in DOMAIN col |-> ((col[i] - center) * SCALE) \div scale])

RECURSIVE ScaleLoop(_, _)
ScaleLoop(df, feats) ==
    IF feats = <<>> THEN df
    ELSE LET f == Head(feats)
             next == IF f \in df.columns
                     THEN Assign(df, f,
                            RobustScale(Strict([i \in DOMAIN df.rows |->
                                                  Filled(df.rows[i], f)])))
                     ELSE df
         IN  ScaleLoop(next, Tail(feats))

_scale_features(df) == IF df.rows = <<>> THEN df ELSE ScaleLoop(df, PrefixedColumns)

\* Mutant of transform: the rows without stock are dropped.
transform_in_stock_only(df) ==
    LET t == _scale_features(
                 _create_composite_features(
                     _create_binary_features(
                         _create_inverse_features(
                             _create_log_features(df)))))
    IN  [columns |-> t.columns,
         rows |-> SelectSeq(t.rows, LAMBDA r : r.inventory > 0)]

\* FeatureEngineer.transform
transform(df) ==
    _scale_features(
        _create_composite_features(
            _create_binary_features(
                _create_inverse_features(
                    _create_log_features(df)))))

-----------------------------------------------------------------------------
\* PartScorer (src/core/scorer.py)

\* Weight tables, in hundredths.
DefaultWeights ==
    [demand_score |-> 35, availability_score |-> 35, inv_leadtime_weeks |-> 15,
     inv_moq |-> 10, is_authorized |-> 5]

CustomWeights ==
    [demand_score |-> 50, availability_score |-> 30, inv_leadtime_weeks |-> 15,
     is_authorized |-> 5]

WeightTables == {DefaultWeights, CustomWeights}

\* MinMaxScaler(feature_range=(1, 100))
FeatureRangeMin == 1

FeatureRangeMax == 100

\* The leadtime above which a part without stock is unavailable.
UnavailableLeadtime == 12

RECURSIVE WeightedSum(_, _, _)
WeightedSum(r, w, feats) ==
    IF feats = {} THEN 0
    ELSE LET f == CHOOSE x \in feats : TRUE
         IN  (IF IsNull(r, f) THEN 0 ELSE r[f] * w[f]) + WeightedSum(r, w, feats \ {f})

\* (df['inventory'] == 0) & (df['leadtime_weeks'] > 12) of one row.
Unavailable(r) ==
    /\ ~IsNull(r, "inventory") /\ r.inventory = 0
    /\ ~IsNull(r, "leadtime_weeks") /\ r.leadtime_weeks > UnavailableLeadtime

\* Mutant of _calculate_base_score: the availability gate is left out.
base_score_without_gate(df, w) ==
    [i \in DOMAIN df.rows |->
        WeightedSum(df.rows[i], w, DOMAIN w \cap df.columns) \div 100]

\* Mutant of _calculate_base_score: a weight whose feature is not a column is
\* applied to the value 1.
base_score_missing_as_one(df, w) ==
    [i \in DOMAIN df.rows |->
        IF {"inventory", "leadtime_weeks"} \subseteq df.columns /\ Unavailable(df.rows[i])
        THEN 0
        ELSE (WeightedSum(df.rows[i], w, DOMAIN w \cap df.columns)
              + Cardinality(DOMAIN w \ df.columns) * SCALE) \div 100]

_calculate_base_score(df, w) ==
    [i \in DOMAIN df.rows |->
        IF {"inventory", "leadtime_weeks"} \subseteq df.columns /\ Unavailable(df.rows[i])
        THEN 0
        ELSE WeightedSum(df.rows[i], w, DOMAIN w \cap df.columns) \div 100]

\* The boost rules in the order they are applied, multipliers in hundredths.
boost_conditions ==
    << [name |-> "ample_stock",       multiplier |-> 110],
       [name |-> "immediate_ship",    multiplier |-> 115],
       [name |-> "authorized_source", multiplier |-> 105],
       [name |-> "high_demand",       multiplier |-> 108] >>

\* Whether boost['condition'](df) is a Series (has .sum): df.get returned a
\* column and not its scalar default.
MaskIsSeries(name, df) ==
    CASE name = "ample_stock"       -> "inventory" \in df.columns \/ "moq" \in df.columns
      [] name = "immediate_ship"    -> "leadtime_weeks" \in df.columns
      [] name = "authorized_source" -> "source_type" \in df.columns
      [] name = "high_demand"       -> "demand_all_time" \in df.columns

\* boost['condition'](df) at row r; a comparison with NaN is False.  The frame
\* is the engineered one: its demand_all_time column holds the scaled values.
Mask(name, df, r) ==
    CASE name = "ample_stock" ->
            /\ ~("inventory" \in df.columns /\ IsNull(r, "inventory"))
            /\ ~("moq" \in df.columns /\ IsNull(r, "moq"))
            /\ (IF "inventory" \in df.columns THEN r.inventory ELSE 0)
                  >= 10 * (IF "moq" \in df.columns THEN r.moq ELSE 1)
      [] name = "immediate_ship" ->
            ~IsNull(r, "leadtime_weeks") /\ r.leadtime_weeks = 0
      [] name = "authorized_source" ->
            ~IsNull(r, "source_type") /\ r.source_type = "Authorized"
      [] name = "high_demand" ->
            ~IsNull(r, "demand_all_time") /\ r.demand_all_time > 100 * SCALE

RECURSIVE BoostLoop(_, _, _)
BoostLoop(df, boosted_score, boosts) ==
    IF boosts = <<>> THEN boosted_score
    ELSE LET boost == Head(boosts)
             next == IF MaskIsSeries(boost.name, df)
                     THEN [i \in DOMAIN boosted_score |->
                             IF Mask(boost.name, df, df.rows[i])
                             THEN (boosted_score[i] * boost.multiplier) \div 100
                             ELSE boosted_score[i]]
                     ELSE boosted_score
         IN  BoostLoop(df, next, Tail(boosts))

_apply_boosts(df) == BoostLoop(df, Column(df, "base_score"), boost_conditions)

\* A MinMaxScaler before its first fit.
Unfitted == [fitted |-> FALSE, data_min |-> 0, data_max |-> 0]

\* Mutant of Fit: the fit of an earlier call is kept and widened (partial_fit).
PartialFit(scaler, xs) ==
    IF scaler.fitted
    THEN [fitted |-> TRUE,
          data_min |-> Min2(scaler.data_min, SeqMin(xs)),
          data_max |-> Max2(scaler.data_max, SeqMax(xs))]
    ELSE [fitted |-> TRUE, data_min |-> SeqMin(xs), data_max |-> SeqMax(xs)]

\* Mutant of Fit: a scaler that is fitted already keeps its fit (transform in
\* place of fit_transform).
FitOnce(scaler, xs) ==
    IF scaler.fitted THEN scaler
    ELSE [fitted |-> TRUE, data_min |-> SeqMin(xs), data_max |-> SeqMax(xs)]

\* MinMaxScaler.fit: the fit of an earlier call is reset.
Fit(scaler, xs) == [fitted |-> TRUE, data_min |-> SeqMin(xs), data_max |-> SeqMax(xs)]

\* MinMaxScaler.transform of x followed by round(2), in 1/Cents; a data range
\* of 0 counts as 1.
Transform(scaler, x, lo, hi) ==
    LET range == scaler.data_max - scaler.data_min
    IN  lo * Cents
        + RoundDiv((x - scaler.data_min) * (hi - lo) * Cents,
                   IF range = 0 THEN SCALE ELSE range)

\* scores[non_zero_mask]
Positive(scores) == SelectSeq(scores, LAMBDA x : x > 0)

\* Mutant of _normalize_scores: the branch for equal scores is left out.
normalize_without_flat_branch(scores, scaler) ==
    IF Positive(scores) = <<>>
    THEN [out |-> [i \in DOMAIN scores |-> 0], scaler |-> scaler]
    ELSE LET fit == Fit(scaler, Positive(scores))
         IN  [out |-> [i \in DOMAIN scores |->
                         IF scores[i] > 0
                         THEN Transform(fit, scores[i], FeatureRangeMin, FeatureRangeMax)
                         ELSE RoundDiv(scores[i] * Cents, SCALE)],
              scaler |-> fit]

\* Mutant of _normalize_scores: the mask is scores >= 0, so that zero scores
\* are rescaled with the positive ones.
normalize_rescaling_zero(scores, scaler) ==
    IF Len(scores) = 0 \/ SeqMax(scores) = SeqMin(scores)
    THEN [out |-> [i \in DOMAIN scores |-> 50 * Cents], scaler |-> scaler]
    ELSE IF SelectSeq(scores, LAMBDA x : x >= 0) = <<>>
    THEN [out |-> [i \in DOMAIN scores |-> 0], scaler |-> scaler]
    ELSE LET fit == Fit(scaler, SelectSeq(scores, LAMBDA x : x >= 0))
         IN  [out |-> [i \in DOMAIN scores |->
                         IF scores[i] >= 0
                         THEN Transform(fit, scores[i], FeatureRangeMin, FeatureRangeMax)
                         ELSE RoundDiv(scores[i] * Cents, SCALE)],
              scaler |-> fit]

\* Mutant of _normalize_scores: the scores that are not positive get the
\* midpoint of the range.
normalize_midpoint_unless_positive(scores, scaler) ==
    IF Len(scores) = 0 \/ SeqMax(scores) = SeqMin(scores)
    THEN [out |-> [i \in DOMAIN scores |-> 50 * Cents], scaler |-> scaler]
    ELSE IF Positive(scores) = <<>>
    THEN [out |-> [i \in DOMAIN scores |-> 0], scaler |-> scaler]
    ELSE LET fit == Fit(scaler, Positive(scores))
         IN  [out |-> [i \in DOMAIN scores |->
                         IF scores[i] > 0
                         THEN Transform(fit, scores[i], FeatureRangeMin, FeatureRangeMax)
                         ELSE 50 * Cents],
              scaler |-> fit]

\* Returns the normalized scores (1/Cents) and the scaler as the call leaves it.
_normalize_scores(scores, scaler) ==
    IF Len(scores) = 0 \/ SeqMax(scores) = SeqMin(scores)
    THEN [out |-> [i \in DOMAIN scores |-> 50 * Cents], scaler |-> scaler]
    ELSE IF Positive(scores) = <<>>
    THEN [out |-> [i \in DOMAIN scores |-> 0], scaler |-> scaler]
    ELSE LET fit == Fit(scaler, Positive(scores))
         IN  [out |-> [i \in DOMAIN scores |->
                         IF scores[i] > 0
                         THEN Transform(fit, scores[i], FeatureRangeMin, FeatureRangeMax)
                         ELSE RoundDiv(scores[i] * Cents, SCALE)],
              scaler |-> fit]

\* PartScorer._normalize_scores of src/part_priority_scoring/core/scorer.py:
\* plain min-max to [0,100], clipped at 0, rounded to 2 decimals.
package_normalize_scores(scores) ==
    IF Len(scores) = 0 THEN <<>>
    ELSE IF SeqMax(scores) = SeqMin(scores)
    THEN [i \in DOMAIN scores |-> 50 * Cents]
    ELSE [i \in DOMAIN scores |->
            Max2(0, RoundDiv((scores[i] - SeqMin(scores)) * 100 * Cents,
                             SeqMax(scores) - SeqMin(scores)))]

\* Mutant of RankPct: rank(method='first'), ties ranked in the order of the rows.
RankPctFirst(scores) ==
    [i \in DOMAIN scores |->
        LET less   == Cardinality({j \in DOMAIN scores : scores[j] < scores[i]})
            before == Cardinality({j \in 1..i : scores[j] = scores[i]})
        IN  ((less + before) * 100 * SCALE) \div Len(scores)]

\* Series.rank(pct=True) * 100 with average ranks, in units of 1/SCALE percent.
RankPct(scores) ==
    [i \in DOMAIN scores |->
        LET less == Cardinality({j \in DOMAIN scores : scores[j] < scores[i]})
            same == Cardinality({j \in DOMAIN scores : scores[j] = scores[i]})
        IN  ((2 * less + same + 1) * 50 * SCALE) \div Len(scores)]

\* Mutant of sort_values: ascending order.
sort_values_ascending(df) ==
    LET n == Len(df.rows)
    IN  { [columns |-> df.columns, rows |-> [i \in 1..n |-> df.rows[p[i]]]] :
            p \in { q \in Permutations(1..n) :
                      \A i \in 1..(n - 1) :
                         df.rows[q[i]].priority_score <= df.rows[q[i + 1]].priority_score } }

\* The orders sort_values('priority_score', ascending=False) can leave the rows
\* in.  The default kind is 'quicksort', which is not stable: rows with equal
\* keys can come out in any order.
sort_values(df) ==
    LET n == Len(df.rows)
    IN  { [columns |-> df.columns, rows |-> [i \in 1..n |-> df.rows[p[i]]]] :
            p \in { q \in Permutations(1..n) :
                      \A i \in 1..(n - 1) :
                         df.rows[q[i]].priority_score >= df.rows[q[i + 1]].priority_score } }

\* Mutant of copy: the steps write to the caller's frame itself.
in_place(df, written) == written

\* df.copy(): the caller's frame df after the steps that follow have turned the
\* copy into the frame written; the copy is a separate object.
copy(df, written) == df

\* The frame calculate_scores returns for an empty input.
empty_df(df) ==
    [columns |-> df.columns \cup {"priority_score", "score_percentile", "base_score"},
     rows |-> <<>>]

\* Mutant of Scored: every record is scored as a batch of its own.
ScoredOneByOne(df, w, scaler) ==
    LET alone(i) ==
            LET one == [columns |-> df.columns, rows |-> <<df.rows[i]>>]
                engineered == transform(one)
                based == Assign(engineered, "base_score",
                                _calculate_base_score(engineered, w))
                boosted == Assign(based, "boosted_score", _apply_boosts(based))
            IN  [boosted.rows[1] EXCEPT !.priority_score = 50 * Cents,
                                        !.score_percentile = 100 * SCALE]
        any == transform(df)
    IN  [frame |-> [columns |-> any.columns
                                \cup {"base_score", "boosted_score",
                                      "priority_score", "score_percentile"},
                    rows |-> Strict([i \in DOMAIN df.rows |-> alone(i)])],
         scaler |-> scaler]

\* Steps 1-5 of calculate_scores on a non-empty frame: the scored, unsorted
\* frame and the final scaler as the call leaves it.
Scored(df, w, scaler) ==
    LET engineered == transform(df)
        based   == Assign(engineered, "base_score", _calculate_base_score(engineered, w))
        boosted == Assign(based, "boosted_score", _apply_boosts(based))
        norm    == _normalize_scores(Column(boosted, "boosted_score"), scaler)
        scored  == Assign(boosted, "priority_score", norm.out)
        ranked  == Assign(scored, "score_percentile", RankPct(norm.out))
    IN  [frame |-> ranked, scaler |-> norm.scaler]

-----------------------------------------------------------------------------
\* State

VARIABLES
    weights,        \* self.weights of the scorer
    final_scaler,   \* self.final_scaler of the scorer
    batch,          \* the caller's batch
    called,         \* the batch the last call scored: "none", "batch" or "other"
    result,         \* the frame the last call returned
    first,          \* of the caller's batch: whether it was scored, whether it
                    \* was scored again, the priority scores of its first call
    warmed,         \* whether the scorer has scored the other batch
    boost_config,   \* self.boost_config of a ComponentScorer / EnhancedPartScorer
    boosted,        \* the outcome of the last call of a boost step on batch
    enhanced_scaler,\* self.final_scaler of an EnhancedPartScorer
    enhanced,       \* the outcome of the last EnhancedPartScorer.calculate_scores
    raw_scores,     \* the boosted scores a normalizer is called on
    normalized,     \* the outcome of the last call of a normalizer on raw_scores
    report,         \* the ValidationResult of the last validate_batch
    environment,    \* self.environment of a ProductionETLPipeline
    pipeline_metrics,\* self.pipeline_metrics of the pipeline
    etl,            \* the position of the pipeline run and what it did with its last batch
    warehouse,      \* the source table, the batch size and the start offset of a load
    loader,         \* the position of load_batch_data and what it requested and yielded
    query,          \* the position of the running _execute_query call
    panda_df,       \* the part frame given to merge_datasets
    demand_df,      \* the demand frame given to merge_datasets
    merge_result,   \* the outcome of the last merge
    weights_config  \* the weights_config given to score_parts

vars == <<weights, final_scaler, batch, called, result, first, warmed,
          boost_config, boosted, enhanced_scaler, enhanced,
          raw_scores, normalized,
          report,
          environment, pipeline_metrics, etl,
          warehouse, loader, query,
          panda_df, demand_df, merge_result,
          weights_config>>

\* No normalizer has been called.
NotNormalized == [by |-> "none", out |-> <<>>]

\* self.pipeline_metrics after ProductionETLPipeline.__init__: the dict has no
\* 'total_components' key (keys holds the counters that are keys of the dict).
InitialMetrics ==
    [keys |-> {"total_batches", "successful_batches", "failed_batches",
               "total_parts", "total_scored"},
     total_batches |-> 0, successful_batches |-> 0, failed_batches |-> 0,
     total_parts |-> 0, total_scored |-> 0, total_components |-> 0]

\* No batch has been through a pipeline.
NoBatch ==
    [validated |-> FALSE, is_valid |-> FALSE, score_called |-> FALSE,
     scored |-> FALSE, save_called |-> FALSE]

\* No pipeline has run.
Idle ==
    [mode |-> "none", status |-> "idle", error |-> "none", batch_number |-> 0,
     all_results |-> 0, last |-> NoBatch]

\* No load: an empty table.
NoWarehouse == [buckets |-> <<>>, batch_size |-> 1, offset |-> 0, limits |-> FALSE]

\* load_batch_data has not been called.
NotLoading ==
    [status |-> "none", current_offset |-> 0, requested |-> <<>>,
     results |-> <<>>, yielded |-> <<>>, error |-> FALSE]

\* No _execute_query call is running.
NoQuery ==
    [status |-> "none", attempt |-> 0, retry_delay |-> 0, slept |-> <<>>,
     outcomes |-> <<>>, error |-> "none"]

\* No frames have been merged.
NotMerged == [by |-> "none", columns |-> {}, rows |-> <<>>]

\* No batch has been validated.
NoReport ==
    [by |-> "none", raised |-> FALSE, is_valid |-> FALSE, total_rows |-> 0,
     valid_rows |-> 0, issues |-> <<>>, quality_score |-> 0]

\* EnhancedPartScorer.calculate_scores has not been called.
NotCalled == [called |-> FALSE, raised |-> FALSE, frame |-> [columns |-> {}, rows |-> <<>>]]

\* No boost step has been called.
NoBoost == [by |-> "none", raised |-> FALSE, scores |-> <<>>]

\* A second batch the same scorer instance is asked to score.
OtherBatch ==
    DataFrame(RawColumns,
              << Part("P1", 100, 0, 1, 200, "Authorized", {}),
                 Part("P6", 5, 8, 1, 0, "Other", {"demand_all_time"}),
                 Part("P4", 0, 0, 10, 20, "Other", {"datasheet"}) >>)

Input(which) == IF which = "batch" THEN batch ELSE OtherBatch

NoFrame == [columns |-> {}, rows |-> <<>>]

\* The caller's batch after a call that worked on a copy of its input.
Caller(which, written) == IF which = "batch" THEN copy(batch, written) ELSE batch

Init ==
    /\ weights \in WeightTables
    /\ final_scaler = Unfitted
    /\ batch \in Batches
    /\ called = "none"
    /\ result = NoFrame
    /\ first = [seen |-> FALSE, again |-> FALSE, scores |-> <<>>]
    /\ warmed = FALSE
    /\ boost_config = <<>>
    /\ boosted = NoBoost
    /\ enhanced_scaler = Unfitted
    /\ enhanced = NotCalled
    /\ raw_scores = <<>>
    /\ normalized = NotNormalized
    /\ report = NoReport
    /\ environment = "development"
    /\ pipeline_metrics = InitialMetrics
    /\ etl = Idle
    /\ warehouse = NoWarehouse
    /\ loader = NotLoading
    /\ query = NoQuery
    /\ panda_df = NoFrame
    /\ demand_df = NoFrame
    /\ merge_result = NotMerged
    /\ weights_config = <<>>

\* scorer.calculate_scores(df)
calculate_scores(which) ==
    LET df == Input(which)
    IN  /\ IF Len(df.rows) = 0
           THEN /\ result' = empty_df(df)
                /\ batch' = Caller(which, empty_df(df))
                /\ UNCHANGED final_scaler
           ELSE \E s \in {Scored(df, weights, final_scaler)} :
                    /\ result' \in sort_values(s.frame)
                    /\ batch' = Caller(which, s.frame)
                    /\ final_scaler' = s.scaler
        /\ called' = which
        /\ first' = IF which # "batch" THEN first
                    ELSE IF first.seen THEN [first EXCEPT !.again = TRUE]
                    ELSE [seen |-> TRUE, again |-> FALSE,
                          scores |-> Column(result', "priority_score")]
        /\ warmed' = (warmed \/ which = "other")
        /\ UNCHANGED <<weights, boost_config, boosted, enhanced_scaler, enhanced, raw_scores, normalized, report, environment, pipeline_metrics, etl, warehouse, loader, query, panda_df, demand_df, merge_result, weights_config>>

Next == \E which \in {"batch", "other"} : calculate_scores(which)

Spec == Init /\ [][Next]_vars

-----------------------------------------------------------------------------
\* Boost steps driven by a configuration (src/scripts/scoring.py,
\* src/src/core/enhanced_scorer.py)

\* Largest number of entries of a boost configuration.
MaxRules == 2

\* An entry of boost_conditions: the keys it has, its condition string and
\* its multiplier in hundredths.
BoostEntry(keys, condition, multiplier) ==
    [keys |-> keys, condition |-> condition, multiplier |-> multiplier]

\* The entries configurations are drawn from: two well-formed rules, a rule on
\* a field no batch has, a rule whose condition is no expression, and an entry
\* without a multiplier.
BoostEntries ==
    { BoostEntry({"condition", "multiplier"}, "inventory >= 10 * moq", 110),
      BoostEntry({"condition", "multiplier"}, "leadtime_weeks == 0", 115),
      BoostEntry({"condition", "multiplier"}, "first_price < 10", 120),
      BoostEntry({"condition", "multiplier"}, "inventory >>", 120),
      BoostEntry({"condition"}, "leadtime_weeks == 0", 0) }

BoostConfigs == SeqsUpTo(BoostEntries, MaxRules)

\* The frames a boost step is called on: a batch with a base_score column.
BoostFrames ==
    { Assign(DataFrame(cs, rows), "base_score",
             [i \in DOMAIN rows |-> (SCALE \div 2) + 100 * i]) :
        cs \in {RawColumns, MinimalColumns},
        rows \in SeqsUpTo(MinimalParts, MaxBatch - 1) }

\* The columns an expression names, for the expressions that parse.
Names(condition) ==
    CASE condition = "inventory >= 10 * moq" -> {"inventory", "moq"}
      [] condition = "leadtime_weeks == 0"   -> {"leadtime_weeks"}
      [] condition = "first_price < 10"      -> {"first_price"}
      [] OTHER                               -> {}

\* The value of a parsed expression at row r; a comparison with NaN is False.
Holds(condition, r) ==
    CASE condition = "inventory >= 10 * moq" ->
            ~IsNull(r, "inventory") /\ ~IsNull(r, "moq") /\ r.inventory >= 10 * r.moq
      [] condition = "leadtime_weeks == 0" ->
            ~IsNull(r, "leadtime_weeks") /\ r.leadtime_weeks = 0
      [] OTHER -> FALSE

\* df.eval(condition): raises on an expression that does not parse and on a
\* name that is no column, and else gives the mask.
df_eval(df, condition) ==
    IF condition \notin {"inventory >= 10 * moq", "leadtime_weeks == 0", "first_price < 10"}
       \/ ~(Names(condition) \subseteq df.columns)
    THEN [raised |-> TRUE, mask |-> <<>>]
    ELSE [raised |-> FALSE,
          mask |-> [i \in DOMAIN df.rows |-> Holds(condition, df.rows[i])]]

\* EnhancedPartScorer._safe_eval_condition: None for a condition it does not
\* know and when indexing a column raises.
_safe_eval_condition(df, condition) ==
    IF condition \notin {"inventory >= 10 * moq", "leadtime_weeks == 0"}
       \/ ~(Names(condition) \subseteq df.columns)
    THEN [none |-> TRUE, mask |-> <<>>]
    ELSE [none |-> FALSE,
          mask |-> [i \in DOMAIN df.rows |-> Holds(condition, df.rows[i])]]

\* boosted_score[mask] *= multiplier
Multiply(boosted_score, mask, multiplier) ==
    [i \in DOMAIN boosted_score |->
        IF mask[i] THEN (boosted_score[i] * multiplier) \div 100 ELSE boosted_score[i]]

\* The loop of ComponentScorer._apply_boosts: the two lookups in the entry are
\* made before the try block, so a missing key leaves the method.
RECURSIVE ComponentBoostLoop(_, _, _)
ComponentBoostLoop(df, boosted_score, config) ==
    IF config = <<>> THEN [raised |-> FALSE, scores |-> boosted_score]
    ELSE LET boost == Head(config)
         IN  IF ~({"condition", "multiplier"} \subseteq boost.keys)
             THEN [raised |-> TRUE, scores |-> <<>>]
             ELSE LET e == df_eval(df, boost.condition)
                  IN  ComponentBoostLoop(df,
                          IF e.raised THEN boosted_score
                          ELSE Multiply(boosted_score, e.mask, boost.multiplier),
                          Tail(config))

\* The loop of EnhancedPartScorer._apply_business_boosts: the whole handling of
\* an entry is inside the try block.
RECURSIVE EnhancedBoostLoop(_, _, _)
EnhancedBoostLoop(df, boosted_score, config) ==
    IF config = <<>> THEN [raised |-> FALSE, scores |-> boosted_score]
    ELSE LET boost == Head(config)
             e == _safe_eval_condition(df, boost.condition)
         IN  EnhancedBoostLoop(df,
                 IF ~({"condition", "multiplier"} \subseteq boost.keys) \/ e.none
                 THEN boosted_score
                 ELSE Multiply(boosted_score, e.mask, boost.multiplier),
                 Tail(config))

BoostInit ==
    /\ weights = DefaultWeights
    /\ final_scaler = Unfitted
    /\ batch \in BoostFrames
    /\ called = "none"
    /\ result = NoFrame
    /\ first = [seen |-> FALSE, again |-> FALSE, scores |-> <<>>]
    /\ warmed = FALSE
    /\ boost_config \in BoostConfigs
    /\ boosted = NoBoost
    /\ enhanced_scaler = Unfitted
    /\ enhanced = NotCalled
    /\ raw_scores = <<>>
    /\ normalized = NotNormalized
    /\ report = NoReport
    /\ environment = "development"
    /\ pipeline_metrics = InitialMetrics
    /\ etl = Idle
    /\ warehouse = NoWarehouse
    /\ loader = NotLoading
    /\ query = NoQuery
    /\ panda_df = NoFrame
    /\ demand_df = NoFrame
    /\ merge_result = NotMerged
    /\ weights_config = <<>>

\* ComponentScorer._apply_boosts(df)
component_apply_boosts ==
    /\ boosted' = [by |-> "component"]
                  @@ ComponentBoostLoop(batch, Column(batch, "base_score"), boost_config)
    /\ UNCHANGED <<weights, final_scaler, batch, called, result, first, warmed,
                   boost_config, enhanced_scaler, enhanced, raw_scores, normalized, report, environment, pipeline_metrics, etl, warehouse, loader, query, panda_df, demand_df, merge_result, weights_config>>

\* EnhancedPartScorer._apply_business_boosts(df)
_apply_business_boosts ==
    /\ boosted' = [by |-> "enhanced"]
                  @@ EnhancedBoostLoop(batch, Column(batch, "base_score"), boost_config)
    /\ UNCHANGED <<weights, final_scaler, batch, called, result, first, warmed,
                   boost_config, enhanced_scaler, enhanced, raw_scores, normalized, report, environment, pipeline_metrics, etl, warehouse, loader, query, panda_df, demand_df, merge_result, weights_config>>

BoostNext == component_apply_boosts \/ _apply_business_boosts

BoostSpec == BoostInit /\ [][BoostNext]_vars

-----------------------------------------------------------------------------
\* EnhancedPartScorer (src/src/core/enhanced_scorer.py)

\* The columns of a batch that has only what the availability filter reads.
FilterColumns == {"pn", "inventory", "leadtime_weeks"}

\* The batches an EnhancedPartScorer is asked to score.
EnhancedBatches ==
    { DataFrame(cs, rows) :
        cs \in {RawColumns, FilterColumns, PartialColumns, MinimalColumns},
        rows \in SeqsUpTo(MinimalParts, MaxBatch) }

\* The boost configurations of the scorer.
EnhancedBoostConfigs ==
    { <<>>,
      << BoostEntry({"condition", "multiplier"}, "inventory >= 10 * moq", 110),
         BoostEntry({"condition", "multiplier"}, "leadtime_weeks == 0", 115) >> }

\* availability_tier of one row; a comparison with NaN is False.
Tier(r) ==
    LET stocked == ~IsNull(r, "inventory") /\ r.inventory > 0
        lead(n) == ~IsNull(r, "leadtime_weeks") /\ r.leadtime_weeks <= n
    IN  IF stocked /\ ~IsNull(r, "leadtime_weeks") /\ r.leadtime_weeks = 0 THEN 1
        ELSE IF stocked /\ lead(4) THEN 2
        ELSE IF stocked /\ lead(12) THEN 3
        ELSE 4

\* EnhancedPartScorer._apply_availability_filter: the tier masks index
\* df['inventory'] and df['leadtime_weeks'] whether or not the columns exist,
\* so a frame without one of them raises KeyError.
_apply_availability_filter(df) ==
    IF ~({"inventory", "leadtime_weeks"} \subseteq df.columns)
    THEN [raised |-> TRUE, frame |-> df]
    ELSE [raised |-> FALSE,
          frame |->
            [columns |-> df.columns \cup {"is_available", "availability_tier"},
             rows |-> Strict([i \in DOMAIN df.rows |->
                        df.rows[i] @@ [is_available |-> ~Unavailable(df.rows[i]),
                                       availability_tier |-> Tier(df.rows[i]) * SCALE,
                                       economic_score |-> 0]])]]

\* feature_config['features']['log_transforms'] and ['inverse_transforms'].
log_transforms == <<"inventory", "moq">>

inverse_transforms == <<"leadtime_weeks", "moq">>

\* The binary features: a feature whose source column is missing raises inside
\* the try block and is set to 0.
enhanced_binary_features(df) ==
    LET zeros == [i \in DOMAIN df.rows |-> 0]
        d1 == Assign(df, "is_authorized",
                IF "source_type" \in df.columns
                THEN [i \in DOMAIN df.rows |->
                        AsInt(~IsNull(df.rows[i], "source_type")
                              /\ df.rows[i].source_type = "Authorized")]
                ELSE zeros)
        d2 == Assign(d1, "has_datasheet",
                IF "datasheet" \in df.columns
                THEN [i \in DOMAIN df.rows |-> AsInt(~IsNull(df.rows[i], "datasheet"))]
                ELSE zeros)
        d3 == Assign(d2, "in_stock",
                IF "inventory" \in df.columns
                THEN [i \in DOMAIN df.rows |->
                        AsInt(~IsNull(df.rows[i], "inventory") /\ df.rows[i].inventory > 0)]
                ELSE zeros)
        d4 == Assign(d3, "immediate_availability",
                IF "leadtime_weeks" \in df.columns
                THEN [i \in DOMAIN df.rows |->
                        AsInt(~IsNull(df.rows[i], "leadtime_weeks")
                              /\ df.rows[i].leadtime_weeks = 0)]
                ELSE zeros)
    IN  d4

\* EnhancedPartScorer._create_composite_features: the availability score as in
\* FeatureEngineer; demand_score and economic_score are 0 without their sources.
enhanced_composite_features(df) ==
    LET zeros == [i \in DOMAIN df.rows |-> 0]
        d1 == _create_composite_features(df)
        d2 == IF "demand_all_time" \in d1.columns THEN d1
              ELSE Assign(d1, "demand_score", zeros)
    IN  Assign(d2, "economic_score", zeros)

\* The columns of the engineered frame that start with 'log_', 'inv_',
\* 'availability_' or 'demand_'.
EnhancedPrefixedColumns ==
    <<"log_inventory", "log_moq", "inv_leadtime_weeks", "inv_moq",
      "availability_tier", "availability_score", "demand_score", "demand_all_time">>

\* EnhancedPartScorer._engineer_features
enhanced_engineer_features(df) ==
    LET d == enhanced_composite_features(
                 enhanced_binary_features(
                     InverseLoop(LogLoop(df, log_transforms), inverse_transforms)))
    IN  IF d.rows = <<>> THEN d ELSE ScaleLoop(d, EnhancedPrefixedColumns)

\* EnhancedPartScorer._calculate_weighted_score
_calculate_weighted_score(df, w) ==
    [i \in DOMAIN df.rows |->
        IF "is_available" \in df.columns /\ ~df.rows[i].is_available
        THEN 0
        ELSE WeightedSum(df.rows[i], w, DOMAIN w \cap df.columns) \div 100]

\* EnhancedPartScorer._normalize_final_scores: MinMaxScaler(feature_range=(0,
\* 100)) on the positive scores, clipped below at 1; the other scores are
\* left as they are.
_normalize_final_scores(scores, scaler) ==
    IF Len(scores) = 0 THEN [out |-> <<>>, scaler |-> scaler]
    ELSE IF SeqMax(scores) = SeqMin(scores)
    THEN [out |-> [i \in DOMAIN scores |-> 50 * Cents], scaler |-> scaler]
    ELSE IF Positive(scores) = <<>>
    THEN [out |-> [i \in DOMAIN scores |-> 0], scaler |-> scaler]
    ELSE LET fit == Fit(scaler, Positive(scores))
         IN  [out |-> [i \in DOMAIN scores |->
                         IF scores[i] > 0
                         THEN Max2(Cents, Transform(fit, scores[i], 0, 100))
                         ELSE RoundDiv(scores[i] * Cents, SCALE)],
              scaler |-> fit]

EnhancedInit ==
    /\ weights = DefaultWeights
    /\ final_scaler = Unfitted
    /\ batch \in EnhancedBatches
    /\ called = "none"
    /\ result = NoFrame
    /\ first = [seen |-> FALSE, again |-> FALSE, scores |-> <<>>]
    /\ warmed = FALSE
    /\ boost_config \in EnhancedBoostConfigs
    /\ boosted = NoBoost
    /\ enhanced_scaler = Unfitted
    /\ enhanced = NotCalled
    /\ raw_scores = <<>>
    /\ normalized = NotNormalized
    /\ report = NoReport
    /\ environment = "development"
    /\ pipeline_metrics = InitialMetrics
    /\ etl = Idle
    /\ warehouse = NoWarehouse
    /\ loader = NotLoading
    /\ query = NoQuery
    /\ panda_df = NoFrame
    /\ demand_df = NoFrame
    /\ merge_result = NotMerged
    /\ weights_config = <<>>

\* EnhancedPartScorer.calculate_scores(df): steps 1-6; an exception of a step
\* is logged and raised again.  The rows are returned in the order of the input.
enhanced_calculate_scores ==
    /\ \E filtered \in {_apply_availability_filter(batch)} :
         IF filtered.raised
         THEN /\ enhanced' = [called |-> TRUE, raised |-> TRUE, frame |-> NoFrame]
              /\ batch' = copy(batch, batch)
              /\ UNCHANGED enhanced_scaler
         ELSE \E engineered \in {enhanced_engineer_features(filtered.frame)} :
              \E based \in {Assign(engineered, "base_score",
                                   _calculate_weighted_score(engineered, weights))} :
              \E boosts \in {EnhancedBoostLoop(based, Column(based, "base_score"),
                                               boost_config)} :
              \E norm \in {_normalize_final_scores(boosts.scores, enhanced_scaler)} :
              \E scored \in {Assign(Assign(based, "boosted_score", boosts.scores),
                                    "priority_score", norm.out)} :
              \E ranked \in {Assign(scored, "score_percentile", RankPct(norm.out))} :
                 /\ enhanced' = [called |-> TRUE, raised |-> FALSE, frame |-> ranked]
                 /\ batch' = copy(batch, ranked)
                 /\ enhanced_scaler' = norm.scaler
    /\ UNCHANGED <<weights, final_scaler, called, result, first, warmed,
                   boost_config, boosted, raw_scores, normalized, report, environment, pipeline_metrics, etl, warehouse, loader, query, panda_df, demand_df, merge_result, weights_config>>

\* FeatureEngineer.transform(df), called on the batch directly.
engineer_transform ==
    \E engineered \in {transform(batch)} :
        /\ result' = engineered
        /\ called' = "transform"
        /\ batch' = copy(batch, engineered)
        /\ UNCHANGED <<weights, final_scaler, first, warmed, boost_config, boosted,
                       enhanced_scaler, enhanced, raw_scores, normalized, report, environment, pipeline_metrics, etl, warehouse, loader, query, panda_df, demand_df, merge_result, weights_config>>

EnhancedNext ==
    \/ calculate_scores("batch")
    \/ enhanced_calculate_scores
    \/ engineer_transform

EnhancedSpec == EnhancedInit /\ [][EnhancedNext]_vars

-----------------------------------------------------------------------------
\* The normalizers on a series of boosted scores

\* The boosted scores the series are drawn from, in units of 1/SCALE: negative,
\* zero and positive ones.
ScoreValues == {0 - 700, 0 - 4, 0, 3, 400, 1000}

\* ComponentScorer._normalize_scores (src/scripts/scoring.py): a fresh
\* MinMaxScaler(feature_range=(1, 100)) on the positive scores, 0 for the rest.
component_normalize_scores(scores) ==
    IF Positive(scores) = <<>>
    THEN [i \in DOMAIN scores |-> 0]
    ELSE LET fit == Fit(Unfitted, Positive(scores))
         IN  [i \in DOMAIN scores |->
                 IF scores[i] > 0
                 THEN Transform(fit, scores[i], FeatureRangeMin, FeatureRangeMax)
                 ELSE 0]

NormalizeInit ==
    /\ weights = DefaultWeights
    /\ final_scaler = Unfitted
    /\ batch = NoFrame
    /\ called = "none"
    /\ result = NoFrame
    /\ first = [seen |-> FALSE, again |-> FALSE, scores |-> <<>>]
    /\ warmed = FALSE
    /\ boost_config = <<>>
    /\ boosted = NoBoost
    /\ enhanced_scaler = Unfitted
    /\ enhanced = NotCalled
    /\ raw_scores \in SeqsUpTo(ScoreValues, MaxBatch)
    /\ normalized = NotNormalized
    /\ report = NoReport
    /\ environment = "development"
    /\ pipeline_metrics = InitialMetrics
    /\ etl = Idle
    /\ warehouse = NoWarehouse
    /\ loader = NotLoading
    /\ query = NoQuery
    /\ panda_df = NoFrame
    /\ demand_df = NoFrame
    /\ merge_result = NotMerged
    /\ weights_config = <<>>

\* PartScorer._normalize_scores(scores)
part_normalize ==
    \E norm \in {_normalize_scores(raw_scores, final_scaler)} :
        /\ normalized' = [by |-> "part", out |-> norm.out]
        /\ final_scaler' = norm.scaler
        /\ UNCHANGED <<weights, batch, called, result, first, warmed, boost_config,
                       boosted, enhanced_scaler, enhanced, raw_scores, report, environment, pipeline_metrics, etl, warehouse, loader, query, panda_df, demand_df, merge_result, weights_config>>

\* ComponentScorer._normalize_scores(scores)
component_normalize ==
    /\ normalized' = [by |-> "component", out |-> component_normalize_scores(raw_scores)]
    /\ UNCHANGED <<weights, final_scaler, batch, called, result, first, warmed,
                   boost_config, boosted, enhanced_scaler, enhanced, raw_scores, report, environment, pipeline_metrics, etl, warehouse, loader, query, panda_df, demand_df, merge_result, weights_config>>

\* EnhancedPartScorer._normalize_final_scores(scores)
enhanced_normalize ==
    \E norm \in {_normalize_final_scores(raw_scores, enhanced_scaler)} :
        /\ normalized' = [by |-> "enhanced", out |-> norm.out]
        /\ enhanced_scaler' = norm.scaler
        /\ UNCHANGED <<weights, final_scaler, batch, called, result, first, warmed,
                       boost_config, boosted, enhanced, raw_scores, report, environment, pipeline_metrics, etl, warehouse, loader, query, panda_df, demand_df, merge_result, weights_config>>

NormalizeNext == part_normalize \/ component_normalize \/ enhanced_normalize

NormalizeSpec == NormalizeInit /\ [][NormalizeNext]_vars

-----------------------------------------------------------------------------
\* DataValidator (src/src/utils/validators.py and part_priority_scoring/utils/validator.py)

\* The part records validated batches are drawn from: one in range, one
\* unavailable, one with missing cells and moq and leadtime out of range.
ValidatorParts ==
    { Part("P1", 100, 0, 1, 200, "Authorized", {}),
      Part("P5", 0, 16, 1, 200, "Authorized", {}),
      Part("P7", 5, 60, 0, 0, "Other",
           {"inventory", "demand_all_time", "source_type", "datasheet"}) }

\* The column sets of validated batches; a frame can have no column at all.
ValidatorColumns ==
    { {}, {"inventory"}, {"inventory", "leadtime_weeks", "moq"},
      {"pn"}, {"pn", "inventory"}, RawColumns \ {"pn"}, RawColumns }

ValidatorBatches ==
    {DataFrame(cs, s) : cs \in ValidatorColumns,
                        s \in SeqsUpTo(ValidatorParts, MaxBatch)}

\* config['quality_thresholds']['required_coverage'] as (field, percent) pairs:
\* absent, 90% of the inventory cells, or 90% of the cells of four fields.
RequiredCoverages ==
    { <<>>,
      << <<"inventory", 90>> >>,
      << <<"inventory", 90>>, <<"demand_all_time", 90>>,
         <<"source_type", 90>>, <<"datasheet", 90>> >> }

Issue(type, severity, affected_rows) ==
    [type |-> type, severity |-> severity, affected_rows |-> affected_rows]

Critical(issues) == SelectSeq(issues, LAMBDA i : i.severity = "critical")

RECURSIVE Concat(_)
Concat(ss) == IF ss = <<>> THEN <<>> ELSE Head(ss) \o Concat(Tail(ss))

\* df[col].isnull().sum()
null_count(df, col) ==
    Cardinality({i \in DOMAIN df.rows : IsNull(df.rows[i], col)})

_validate_structure(df) ==
    (IF Len(df.rows) = 0
     THEN << Issue("empty_dataframe", "critical", 0) >> ELSE <<>>)
    \o (IF {"pn", "inventory"} \ df.columns # {}
        THEN << Issue("missing_columns", "critical", Len(df.rows)) >> ELSE <<>>)

\* coverage_pct of a field is (len(df) - null_count) / len(df) * 100, NaN for a
\* frame without rows; NaN < required_pct is False.
_validate_field_coverage(df, required_coverage) ==
    Concat([k \in DOMAIN required_coverage |->
        LET field == required_coverage[k][1]
            required_pct == required_coverage[k][2]
        IN  IF /\ field \in df.columns
               /\ Len(df.rows) > 0
               /\ (Len(df.rows) - null_count(df, field)) * 100
                      < required_pct * Len(df.rows)
            THEN << Issue("insufficient_coverage", "warning", 0) >>
            ELSE <<>>])

\* The default ranges; prices are in cents (0.01 is 1).
numeric_fields ==
    << [field |-> "inventory", min_val |-> 0, max_val |-> 1000000],
       [field |-> "first_price", min_val |-> 1, max_val |-> 10000000],
       [field |-> "moq", min_val |-> 1, max_val |-> 100000],
       [field |-> "leadtime_weeks", min_val |-> 0, max_val |-> 52] >>

_validate_data_quality(df) ==
    Concat([k \in DOMAIN numeric_fields |->
        LET nf == numeric_fields[k]
            out_of_range ==
                IF nf.field \in df.columns
                THEN {i \in DOMAIN df.rows :
                        /\ ~IsNull(df.rows[i], nf.field)
                        /\ \/ df.rows[i][nf.field] < nf.min_val
                           \/ df.rows[i][nf.field] > nf.max_val}
                ELSE {}
        IN  IF out_of_range # {}
            THEN << Issue("out_of_range", "warning", Cardinality(out_of_range)) >>
            ELSE <<>>])

_validate_business_rules(df) ==
    LET unavailable ==
            IF {"inventory", "leadtime_weeks"} \subseteq df.columns
            THEN {i \in DOMAIN df.rows :
                    /\ ~IsNull(df.rows[i], "inventory")
                    /\ df.rows[i].inventory = 0
                    /\ ~IsNull(df.rows[i], "leadtime_weeks")
                    /\ df.rows[i].leadtime_weeks > 12}
            ELSE {}
        missing_price ==
            IF {"inventory", "first_price"} \subseteq df.columns
            THEN {i \in DOMAIN df.rows :
                    /\ ~IsNull(df.rows[i], "inventory")
                    /\ df.rows[i].inventory > 0
                    /\ IsNull(df.rows[i], "first_price")}
            ELSE {}
    IN  (IF unavailable # {}
         THEN << Issue("unavailable_components", "info", Cardinality(unavailable)) >>
         ELSE <<>>)
        \o (IF missing_price # {}
            THEN << Issue("missing_price_data", "warning", Cardinality(missing_price)) >>
            ELSE <<>>)

\* The points deducted for the issues, in 1/SCALE.
RECURSIVE Deducted(_)
Deducted(issues) ==
    IF issues = <<>> THEN 0
    ELSE (CASE Head(issues).severity = "critical" -> 25 * SCALE
            [] Head(issues).severity = "warning"  -> 10 * SCALE
            [] Head(issues).severity = "info"     -> 2 * SCALE
            [] OTHER -> 0)
         + Deducted(Tail(issues))

\* The cells of the columns cs that are not null.
RECURSIVE Covered(_, _)
Covered(df, cs) ==
    IF cs = {} THEN 0
    ELSE LET c == CHOOSE x \in cs : TRUE
         IN  (Len(df.rows) - null_count(df, c)) + Covered(df, cs \ {c})

\* Mutant of _calculate_quality_score: no coverage penalty.
quality_score_without_coverage(df, issues) ==
    IF Cardinality(df.columns) = 0
    THEN [raised |-> TRUE, score |-> 0]
    ELSE [raised |-> FALSE,
          score |-> Max2(0, Min2(100 * SCALE, 100 * SCALE - Deducted(issues)))]

\* The quality score in 1/SCALE, rounded to it. The average of the coverage
\* percentages divides by the number of columns: ZeroDivisionError for a frame
\* without columns. For a frame without rows the average is NaN and
\* max(0, NaN) is 0.
_calculate_quality_score(df, issues) ==
    LET n == Len(df.rows)
        k == Cardinality(df.columns)
        coverage_penalty ==
            IF n = 0 THEN 0
            ELSE IF 95 * n * k <= 100 * Covered(df, df.columns) THEN 0
            ELSE RoundDiv((95 * n * k - 100 * Covered(df, df.columns)) * SCALE,
                          2 * n * k)
    IN  IF k = 0
        THEN [raised |-> TRUE, score |-> 0]
        ELSE [raised |-> FALSE,
              score |-> Max2(0, Min2(100 * SCALE,
                                     100 * SCALE - Deducted(issues)
                                     - coverage_penalty))]

RECURSIVE AffectedRows(_)
AffectedRows(issues) ==
    IF issues = <<>> THEN 0
    ELSE Head(issues).affected_rows + AffectedRows(Tail(issues))

ValidateInit ==
    /\ weights = DefaultWeights
    /\ final_scaler = Unfitted
    /\ batch \in ValidatorBatches
    /\ called = "none"
    /\ result = NoFrame
    /\ first = [seen |-> FALSE, again |-> FALSE, scores |-> <<>>]
    /\ warmed = FALSE
    /\ boost_config = <<>>
    /\ boosted = NoBoost
    /\ enhanced_scaler = Unfitted
    /\ enhanced = NotCalled
    /\ raw_scores = <<>>
    /\ normalized = NotNormalized
    /\ report = NoReport
    /\ environment = "development"
    /\ pipeline_metrics = InitialMetrics
    /\ etl = Idle
    /\ warehouse = NoWarehouse
    /\ loader = NotLoading
    /\ query = NoQuery
    /\ panda_df = NoFrame
    /\ demand_df = NoFrame
    /\ merge_result = NotMerged
    /\ weights_config = <<>>

\* DataValidator.validate_batch(batch) of src/src/utils/validators.py
validate_batch ==
    \E required_coverage \in RequiredCoverages :
    \E issues \in {_validate_structure(batch)
                   \o _validate_field_coverage(batch, required_coverage)
                   \o _validate_data_quality(batch)
                   \o _validate_business_rules(batch)} :
    \E quality \in {_calculate_quality_score(batch, issues)} :
        /\ report' =
              IF quality.raised
              THEN [NoReport EXCEPT !.by = "validators", !.raised = TRUE]
              ELSE [by |-> "validators",
                    raised |-> FALSE,
                    is_valid |-> Critical(issues) = <<>>,
                    total_rows |-> Len(batch.rows),
                    valid_rows |-> Max2(0, Len(batch.rows)
                                           - AffectedRows(Critical(issues))),
                    issues |-> issues,
                    quality_score |-> quality.score]
        /\ UNCHANGED <<weights, final_scaler, batch, called, result, first, warmed,
                       boost_config, boosted, enhanced_scaler, enhanced,
                       raw_scores, normalized, environment, pipeline_metrics, etl, warehouse, loader, query, panda_df, demand_df, merge_result, weights_config>>

\* DataValidator.validate_batch(batch) of part_priority_scoring/utils/validator.py;
\* its issues carry no affected_rows.
package_validate_batch ==
    \E issues \in {(IF Len(batch.rows) = 0
                    THEN << Issue("empty_dataframe", "critical", 0) >> ELSE <<>>)
                   \o (IF "pn" \notin batch.columns
                       THEN << Issue("missing_columns", "critical", 0) >>
                       ELSE <<>>)} :
        /\ report' =
              [by |-> "validator",
               raised |-> FALSE,
               is_valid |-> issues = <<>>,
               total_rows |-> Len(batch.rows),
               valid_rows |-> IF issues = <<>> THEN Len(batch.rows) ELSE 0,
               issues |-> issues,
               quality_score |-> Max2(0, 100 * SCALE - Len(issues) * 25 * SCALE)]
        /\ UNCHANGED <<weights, final_scaler, batch, called, result, first, warmed,
                       boost_config, boosted, enhanced_scaler, enhanced,
                       raw_scores, normalized, environment, pipeline_metrics, etl, warehouse, loader, query, panda_df, demand_df, merge_result, weights_config>>

ValidateNext == validate_batch \/ package_validate_batch

ValidateSpec == ValidateInit /\ [][ValidateNext]_vars

-----------------------------------------------------------------------------
\* ProductionETLPipeline (src/src/pipeline/production_etl.py)

MaxIterations == 11

Environments == {"development", "staging", "production"}

\* The merged frames a pipeline is given: with every column, without the
\* inventory, without the leadtime; the sample can have no rows.
PipelineColumns ==
    {RawColumns, RawColumns \ {"inventory"}, RawColumns \ {"leadtime_weeks"}}

SampleBatches ==
    {DataFrame(cs, s) : cs \in PipelineColumns,
                        s \in {<<>>, << Part("P1", 100, 0, 1, 200, "Authorized", {}) >>}}

\* load_batch_data yields no frame without rows.
LoadedBatches == {b \in SampleBatches : Len(b.rows) > 0}

\* validation_result.is_valid: no critical issue; only _validate_structure
\* reports critical issues.
is_valid(df) == Critical(_validate_structure(df)) = <<>>

\* EnhancedPartScorer.calculate_scores returns: it raises the KeyError of the
\* availability filter again.
Scores(df) == ~_apply_availability_filter(df).raised

\* (scored_df['priority_score'] > 0).sum() of a scored frame of at most one
\* row: a single score is normalized to 50.0.
ScoredCount(df) == Len(df.rows)

PipelineInit ==
    /\ weights = DefaultWeights
    /\ final_scaler = Unfitted
    /\ batch = NoFrame
    /\ called = "none"
    /\ result = NoFrame
    /\ first = [seen |-> FALSE, again |-> FALSE, scores |-> <<>>]
    /\ warmed = FALSE
    /\ boost_config = <<>>
    /\ boosted = NoBoost
    /\ enhanced_scaler = Unfitted
    /\ enhanced = NotCalled
    /\ raw_scores = <<>>
    /\ normalized = NotNormalized
    /\ report = NoReport
    /\ environment \in Environments
    /\ pipeline_metrics = InitialMetrics
    /\ etl = Idle
    /\ warehouse = NoWarehouse
    /\ loader = NotLoading
    /\ query = NoQuery
    /\ panda_df = NoFrame
    /\ demand_df = NoFrame
    /\ merge_result = NotMerged
    /\ weights_config = <<>>

\* _run_sample_pipeline: load, merge, validate, score, save, update the
\* metrics.  load_ok and save_ok are the outcomes of the warehouse calls.
_run_sample_pipeline ==
    /\ etl.status = "idle"
    /\ \E load_ok \in BOOLEAN, save_ok \in BOOLEAN, merged_df \in SampleBatches :
       \E valid \in {is_valid(merged_df)} :
       \E gated \in {~valid /\ environment = "production"} :
       \E scored \in {~gated /\ Scores(merged_df)} :
       \E done \in {scored /\ save_ok} :
          IF ~load_ok
          THEN /\ etl' = [etl EXCEPT !.mode = "sample", !.status = "raised",
                                     !.error = "load"]
               /\ UNCHANGED pipeline_metrics
          ELSE /\ etl' = [mode |-> "sample",
                          status |-> IF done THEN "returned" ELSE "raised",
                          error |-> IF gated THEN "ValueError"
                                    ELSE IF ~scored THEN "KeyError"
                                    ELSE IF ~save_ok THEN "save"
                                    ELSE "none",
                          batch_number |-> 0,
                          all_results |-> 0,
                          last |-> [validated |-> TRUE, is_valid |-> valid,
                                    score_called |-> ~gated, scored |-> scored,
                                    save_called |-> scored]]
               /\ pipeline_metrics' =
                     IF done
                     THEN [pipeline_metrics EXCEPT
                              !.keys = @ \cup {"total_components"},
                              !.total_batches = 1,
                              !.successful_batches = 1,
                              !.total_components = Len(merged_df.rows),
                              !.total_scored = ScoredCount(merged_df)]
                     ELSE pipeline_metrics
    /\ UNCHANGED <<weights, final_scaler, batch, called, result, first, warmed,
                   boost_config, boosted, enhanced_scaler, enhanced,
                   raw_scores, normalized, report, environment, warehouse, loader, query, panda_df, demand_df, merge_result, weights_config>>

\* _run_batch_pipeline up to its loop, on a new pipeline or on one that has
\* returned from a sample run.
start_batch_pipeline ==
    /\ \/ etl.status = "idle"
       \/ etl.status = "returned" /\ etl.mode = "sample"
    /\ etl' = [Idle EXCEPT !.mode = "batch", !.status = "running"]
    /\ UNCHANGED <<weights, final_scaler, batch, called, result, first, warmed,
                   boost_config, boosted, enhanced_scaler, enhanced,
                   raw_scores, normalized, report, environment, pipeline_metrics, warehouse, loader, query, panda_df, demand_df, merge_result, weights_config>>

\* One iteration of the loop of _run_batch_pipeline: the try block, the
\* except block and the finally block.
process_batch ==
    /\ etl.mode = "batch" /\ etl.status = "running"
    /\ etl.batch_number < MaxIterations
    /\ \E save_ok \in BOOLEAN, merged_df \in LoadedBatches :
       \E batch_number \in {etl.batch_number + 1} :
       \E scored \in {Scores(merged_df)} :
       \E saved \in {scored /\ save_ok} :
       \E tracked \in {saved /\ "total_components" \in pipeline_metrics.keys} :
       \E failed_batches \in {pipeline_metrics.failed_batches
                               + (IF tracked THEN 0 ELSE 1)} :
       \E too_many \in {~tracked /\ environment = "production"
                        /\ failed_batches > 5} :
       \E log_fails \in {batch_number % 10 = 0
                         /\ "total_components" \notin pipeline_metrics.keys} :
          /\ pipeline_metrics' =
                [pipeline_metrics EXCEPT
                    !.successful_batches = IF saved THEN @ + 1 ELSE @,
                    !.total_components =
                        IF tracked THEN @ + Len(merged_df.rows) ELSE @,
                    !.total_scored =
                        IF tracked THEN @ + ScoredCount(merged_df) ELSE @,
                    !.failed_batches = failed_batches,
                    !.total_batches = @ + 1]
          /\ etl' = [mode |-> "batch",
                     status |-> IF too_many \/ log_fails THEN "raised"
                                ELSE "running",
                     error |-> IF log_fails THEN "KeyError"
                               ELSE IF too_many THEN "RuntimeError"
                               ELSE "none",
                     batch_number |-> batch_number,
                     all_results |-> etl.all_results + (IF tracked THEN 1 ELSE 0),
                     last |-> [validated |-> TRUE, is_valid |-> is_valid(merged_df),
                               score_called |-> TRUE, scored |-> scored,
                               save_called |-> scored]]
    /\ UNCHANGED <<weights, final_scaler, batch, called, result, first, warmed,
                   boost_config, boosted, enhanced_scaler, enhanced,
                   raw_scores, normalized, report, environment, warehouse, loader, query, panda_df, demand_df, merge_result, weights_config>>

\* load_batch_data is exhausted: _run_batch_pipeline returns its summary.
finish_batch_pipeline ==
    /\ etl.mode = "batch" /\ etl.status = "running"
    /\ etl' = [etl EXCEPT !.status = "returned"]
    /\ UNCHANGED <<weights, final_scaler, batch, called, result, first, warmed,
                   boost_config, boosted, enhanced_scaler, enhanced,
                   raw_scores, normalized, report, environment, pipeline_metrics, warehouse, loader, query, panda_df, demand_df, merge_result, weights_config>>

PipelineNext ==
    \/ _run_sample_pipeline
    \/ start_batch_pipeline
    \/ process_batch
    \/ finish_batch_pipeline

PipelineSpec == PipelineInit /\ [][PipelineNext]_vars

-----------------------------------------------------------------------------
\* EnhancedDataLoader (src/src/core/enhanced_data_loader.py)

MaxRecords == 3

\* The hash buckets MOD(ABS(FARM_FINGERPRINT(pn)), 1000000) of the model's
\* tables are 0..MaxBucket.
MaxBucket == 3

BatchSizes == {1, 2}

Offsets == {0, 1}

max_retries == 3

initial_retry_delay == 5

\* What one query attempt can do.
Outcomes == {"ok", "GoogleCloudError", "Exception"}

\* The tables: the bucket of every record; whether the query template limits
\* the result to batch_size rows.
Warehouses ==
    [buckets : SeqsUpTo(0..MaxBucket, MaxRecords), batch_size : BatchSizes,
     offset : Offsets, limits : BOOLEAN]

\* The records the batch filter selects:
\* bucket BETWEEN current_offset AND current_offset + batch_size - 1.
Filtered(w, current_offset) ==
    {i \in DOMAIN w.buckets :
        /\ w.buckets[i] >= current_offset
        /\ w.buckets[i] <= current_offset + w.batch_size - 1}

\* The results the query can return: the selected records, any batch_size of
\* them if the template limits the result.
QueryResults(w, current_offset) ==
    IF w.limits /\ Cardinality(Filtered(w, current_offset)) > w.batch_size
    THEN {r \in SUBSET Filtered(w, current_offset) : Cardinality(r) = w.batch_size}
    ELSE {Filtered(w, current_offset)}

\* Mutant of Backoff: the delay stays the same.
BackoffConstant(retry_delay) == retry_delay

\* retry_delay *= 2
Backoff(retry_delay) == retry_delay * 2

\* Mutant of AfterYield: no break after a result with fewer rows than requested.
AfterYieldWithoutBreak(rows, batch_size) == "ready"

\* After the yield: break if the result had fewer rows than batch_size.
AfterYield(rows, batch_size) == IF rows < batch_size THEN "done" ELSE "ready"

LoaderInit ==
    /\ weights = DefaultWeights
    /\ final_scaler = Unfitted
    /\ batch = NoFrame
    /\ called = "none"
    /\ result = NoFrame
    /\ first = [seen |-> FALSE, again |-> FALSE, scores |-> <<>>]
    /\ warmed = FALSE
    /\ boost_config = <<>>
    /\ boosted = NoBoost
    /\ enhanced_scaler = Unfitted
    /\ enhanced = NotCalled
    /\ raw_scores = <<>>
    /\ normalized = NotNormalized
    /\ report = NoReport
    /\ environment = "development"
    /\ pipeline_metrics = InitialMetrics
    /\ etl = Idle
    /\ warehouse \in Warehouses
    /\ loader = [NotLoading EXCEPT !.status = "ready",
                                   !.current_offset = warehouse.offset]
    /\ query = NoQuery
    /\ panda_df = NoFrame
    /\ demand_df = NoFrame
    /\ merge_result = NotMerged
    /\ weights_config = <<>>

\* load_batch_data: the head of the loop, up to the call of _execute_query.
request_batch ==
    /\ loader.status = "ready"
    /\ loader' = [loader EXCEPT !.status = "waiting",
                                !.requested = Append(@, loader.current_offset)]
    /\ query' = [NoQuery EXCEPT !.status = "running",
                                !.retry_delay = initial_retry_delay]
    /\ UNCHANGED <<weights, final_scaler, batch, called, result, first, warmed,
                   boost_config, boosted, enhanced_scaler, enhanced,
                   raw_scores, normalized, report, environment,
                   pipeline_metrics, etl, warehouse, panda_df, demand_df, merge_result, weights_config>>

\* _execute_query: one attempt of the loop.
_execute_query ==
    /\ query.status = "running"
    /\ \E outcome \in Outcomes :
          query' =
             IF outcome = "ok"
             THEN [query EXCEPT !.status = "returned",
                                !.outcomes = Append(@, outcome)]
             ELSE IF outcome = "GoogleCloudError" /\ query.attempt < max_retries - 1
             THEN [query EXCEPT !.attempt = @ + 1,
                                !.slept = Append(@, query.retry_delay),
                                !.retry_delay = Backoff(@),
                                !.outcomes = Append(@, outcome)]
             ELSE [query EXCEPT !.status = "raised",
                                !.error = outcome,
                                !.outcomes = Append(@, outcome)]
    /\ UNCHANGED <<weights, final_scaler, batch, called, result, first, warmed,
                   boost_config, boosted, enhanced_scaler, enhanced,
                   raw_scores, normalized, report, environment,
                   pipeline_metrics, etl, warehouse, loader, panda_df, demand_df, merge_result, weights_config>>

\* load_batch_data: the rest of the loop body, after _execute_query has
\* returned or raised.
load_batch_data ==
    /\ loader.status = "waiting"
    /\ query.status \in {"returned", "raised"}
    /\ IF query.status = "raised"
       THEN loader' = [loader EXCEPT !.status = "done", !.error = TRUE]
       ELSE \E batch_df \in QueryResults(warehouse, loader.current_offset) :
               loader' =
                  IF batch_df = {}
                  THEN [loader EXCEPT !.status = "done",
                                      !.results = Append(@, batch_df)]
                  ELSE [loader EXCEPT
                           !.status = AfterYield(Cardinality(batch_df),
                                                 warehouse.batch_size),
                           !.results = Append(@, batch_df),
                           !.yielded = Append(@, batch_df),
                           !.current_offset = @ + warehouse.batch_size]
    /\ UNCHANGED <<weights, final_scaler, batch, called, result, first, warmed,
                   boost_config, boosted, enhanced_scaler, enhanced,
                   raw_scores, normalized, report, environment,
                   pipeline_metrics, etl, warehouse, query, panda_df, demand_df, merge_result, weights_config>>

LoaderNext == request_batch \/ _execute_query \/ load_batch_data

LoaderSpec == LoaderInit /\ [][LoaderNext]_vars

\* The consumer keeps iterating and the executor runs every query.
LoaderFairSpec == LoaderSpec /\ WF_vars(LoaderNext)

-----------------------------------------------------------------------------
\* merge_datasets (src/scripts/etl_pipeline.py) and
\* ProductionETLPipeline._merge_datasets (src/src/pipeline/production_etl.py)

MaxRows == 2

\* The part frames: rows with a pn and a pn_clean, with or without the
\* pn_clean column.
PartRows == [pn : {"PN001", "PN002"}, pn_clean : {"PN001C", "PN002C"}]

PartFrames ==
    {[columns |-> cs, rows |-> s] :
        cs \in {{"pn", "pn_clean"}, {"pn"}}, s \in SeqsUpTo(PartRows, MaxRows)}

\* The demand frames.
DemandRows == [pn : {"PN001", "PN002"}, demand_all_time : {10, 25},
               demand_index : {10}]

DemandFrames ==
    {[columns |-> {"pn", "demand_all_time", "demand_index"}, rows |-> s] :
        s \in SeqsUpTo(DemandRows, MaxRows)}

\* The rows of a left row in left.merge(right, on='pn', how='left'): one per
\* matching right row, in the order of right; one with missing demand cells
\* if there is none.
LeftRows(l, right) ==
    IF SelectSeq(right, LAMBDA r : r.pn = l.pn) = <<>>
    THEN << [pn |-> l.pn, pn_clean |-> l.pn_clean, demand_all_time |-> 0,
             demand_index |-> 0, nulls |-> {"demand_all_time", "demand_index"}] >>
    ELSE [k \in DOMAIN SelectSeq(right, LAMBDA r : r.pn = l.pn) |->
            [pn |-> l.pn, pn_clean |-> l.pn_clean,
             demand_all_time |->
                 SelectSeq(right, LAMBDA r : r.pn = l.pn)[k].demand_all_time,
             demand_index |->
                 SelectSeq(right, LAMBDA r : r.pn = l.pn)[k].demand_index,
             nulls |-> {}]]

\* Mutant of merge: an inner join.
RECURSIVE merge_inner(_, _)
merge_inner(left, right) ==
    IF left = <<>> THEN <<>>
    ELSE (IF SelectSeq(right, LAMBDA r : r.pn = Head(left).pn) = <<>>
          THEN <<>> ELSE LeftRows(Head(left), right))
         \o merge_inner(Tail(left), right)

\* left.merge(right, on='pn', how='left'): the order of the left keys is kept.
RECURSIVE merge(_, _)
merge(left, right) ==
    IF left = <<>> THEN <<>>
    ELSE LeftRows(Head(left), right) \o merge(Tail(left), right)

\* Series.fillna(0) of the two demand columns.
fillna(rows) ==
    [i \in DOMAIN rows |-> [rows[i] EXCEPT !.nulls = {}]]

\* DataFrame.drop_duplicates(subset=['pn_clean'], keep='first')
RECURSIVE drop_duplicates(_, _)
drop_duplicates(rows, seen) ==
    IF rows = <<>> THEN <<>>
    ELSE IF Head(rows).pn_clean \in seen
         THEN drop_duplicates(Tail(rows), seen)
         ELSE <<Head(rows)>>
              \o drop_duplicates(Tail(rows), seen \cup {Head(rows).pn_clean})

\* The merged frame: deduplicated if the part frame has a pn_clean column.
Merged(by, columns, rows) ==
    [by |-> by,
     columns |-> columns \cup {"demand_all_time", "demand_index"},
     rows |-> IF "pn_clean" \in columns THEN drop_duplicates(rows, {}) ELSE rows]

MergeInit ==
    /\ weights = DefaultWeights
    /\ final_scaler = Unfitted
    /\ batch = NoFrame
    /\ called = "none"
    /\ result = NoFrame
    /\ first = [seen |-> FALSE, again |-> FALSE, scores |-> <<>>]
    /\ warmed = FALSE
    /\ boost_config = <<>>
    /\ boosted = NoBoost
    /\ enhanced_scaler = Unfitted
    /\ enhanced = NotCalled
    /\ raw_scores = <<>>
    /\ normalized = NotNormalized
    /\ report = NoReport
    /\ environment = "development"
    /\ pipeline_metrics = InitialMetrics
    /\ etl = Idle
    /\ warehouse = NoWarehouse
    /\ loader = NotLoading
    /\ query = NoQuery
    /\ panda_df \in PartFrames
    /\ demand_df \in DemandFrames
    /\ merge_result = NotMerged
    /\ weights_config = <<>>

\* merge_datasets(panda_df, demand_df) of scripts/etl_pipeline.py
merge_datasets ==
    /\ merge_result' = Merged("scripts", panda_df.columns,
                           merge(panda_df.rows, demand_df.rows))
    /\ UNCHANGED <<weights, final_scaler, batch, called, result, first, warmed,
                   boost_config, boosted, enhanced_scaler, enhanced,
                   raw_scores, normalized, report, environment,
                   pipeline_metrics, etl, warehouse, loader, query,
                   panda_df, demand_df, weights_config>>

\* ProductionETLPipeline._merge_datasets(panda_df, demand_df): the missing
\* demand cells are filled with 0.
_merge_datasets ==
    /\ merge_result' = Merged("production", panda_df.columns,
                           fillna(merge(panda_df.rows, demand_df.rows)))
    /\ UNCHANGED <<weights, final_scaler, batch, called, result, first, warmed,
                   boost_config, boosted, enhanced_scaler, enhanced,
                   raw_scores, normalized, report, environment,
                   pipeline_metrics, etl, warehouse, loader, query,
                   panda_df, demand_df, weights_config>>

MergeNext == merge_datasets \/ _merge_datasets

MergeSpec == MergeInit /\ [][MergeNext]_vars

-----------------------------------------------------------------------------
\* score_parts (src/part_priority_scoring/__init__.py)

\* A table that names every default feature, with other weights.
EvenWeights ==
    [demand_score |-> 20, availability_score |-> 20, inv_leadtime_weeks |-> 20,
     inv_moq |-> 20, is_authorized |-> 20]

\* The weights_config arguments: none, the table of test_custom_weights, a
\* single default feature, every default feature, a feature the default table
\* does not name.
WeightsConfigs ==
    {<<>>, CustomWeights, [demand_score |-> 100], EvenWeights,
     [has_datasheet |-> 5]}

\* Mutant of update: the table is replaced by the argument.
replaced(d, w) == w

\* d.update(w) of two dicts.
update(d, w) ==
    [f \in (DOMAIN d) \cup (DOMAIN w) |-> IF f \in DOMAIN w THEN w[f] ELSE d[f]]

\* config['weights'] as score_parts hands it to PartScorer.
ConfiguredWeights(w) == IF w = <<>> THEN DefaultWeights ELSE update(DefaultWeights, w)

\* Steps of PartScorer.calculate_scores of the package on a non-empty frame,
\* before the sort.
PackageScored(df, w) ==
    LET engineered == transform(df)
        based   == Assign(engineered, "base_score", _calculate_base_score(engineered, w))
        boosted_df == Assign(based, "boosted_score", _apply_boosts(based))
        norm    == package_normalize_scores(Column(boosted_df, "boosted_score"))
        scored  == Assign(boosted_df, "priority_score", norm)
    IN  Assign(scored, "score_percentile", RankPct(norm))

ScorePartsInit ==
    /\ weights = DefaultWeights
    /\ final_scaler = Unfitted
    /\ batch \in Batches
    /\ called = "none"
    /\ result = NoFrame
    /\ first = [seen |-> FALSE, again |-> FALSE, scores |-> <<>>]
    /\ warmed = FALSE
    /\ boost_config = <<>>
    /\ boosted = NoBoost
    /\ enhanced_scaler = Unfitted
    /\ enhanced = NotCalled
    /\ raw_scores = <<>>
    /\ normalized = NotNormalized
    /\ report = NoReport
    /\ environment = "development"
    /\ pipeline_metrics = InitialMetrics
    /\ etl = Idle
    /\ warehouse = NoWarehouse
    /\ loader = NotLoading
    /\ query = NoQuery
    /\ panda_df = NoFrame
    /\ demand_df = NoFrame
    /\ merge_result = NotMerged
    /\ weights_config = <<>>

\* score_parts(df, weights_config=W): a new PartScorer with the configured
\* weights scores a copy of df.
score_parts ==
    /\ called = "none"
    /\ \E W \in WeightsConfigs :
       \E w \in {ConfiguredWeights(W)} :
          /\ weights_config' = W
          /\ weights' = w
          /\ IF Len(batch.rows) = 0
             THEN result' = empty_df(batch)
             ELSE \E s \in {PackageScored(batch, w)} :
                      result' \in sort_values(s)
    /\ called' = "batch"
    /\ UNCHANGED <<final_scaler, batch, first, warmed,
                   boost_config, boosted, enhanced_scaler, enhanced,
                   raw_scores, normalized, report, environment,
                   pipeline_metrics, etl, warehouse, loader, query,
                   panda_df, demand_df, merge_result>>

ScorePartsNext == score_parts

ScorePartsSpec == ScorePartsInit /\ [][ScorePartsNext]_vars

-----------------------------------------------------------------------------
\* Properties of calculate_scores

\* A call has returned.
Returned == called # "none"

\* The frame the last call was given.
Given == Input(called)

Rows == result.rows

\* The row is one the availability gate zeroes.
Gated(r) ==
    /\ {"inventory", "leadtime_weeks"} \subseteq result.columns
    /\ Unavailable(r)

\* All boosted scores of the returned batch are equal.
Flat == \A i, j \in DOMAIN Rows : Rows[i].boosted_score = Rows[j].boosted_score

PositiveBoosted == {x \in {Rows[i].boosted_score : i \in DOMAIN Rows} : x > 0}

\* The largest and the smallest element of a non-empty set of integers.
SetMax(S) == CHOOSE v \in S : \A w \in S : w <= v

SetMin(S) == CHOOSE v \in S : \A w \in S : v <= w

\* C1: every record calculate_scores returns for a non-empty batch has a
\* priority_score in the closed range [0,100], whatever the sign of its
\* boosted_score.
C1_PriorityInRange ==
    Returned =>
        \A i \in DOMAIN Rows :
            /\ Rows[i].priority_score >= 0
            /\ Rows[i].priority_score <= 100 * Cents

\* C2 as claimed: a record with inventory == 0 and leadtime_weeks > 12 always
\* ends with base_score == 0 and priority_score == 0, whatever the batch.
C2_GatedAlwaysZero ==
    Returned =>
        \A i \in DOMAIN Rows :
            Gated(Rows[i]) => Rows[i].base_score = 0 /\ Rows[i].priority_score = 0

\* C2 as amended: a record with inventory == 0 and leadtime_weeks > 12 ends with
\* base_score == 0 and boosted_score == 0; its priority_score is 0 unless all
\* boosted scores of the batch are equal, and then it is the midpoint 50.
C2_GatedZeroUnlessFlat ==
    Returned =>
        \A i \in DOMAIN Rows :
            Gated(Rows[i]) =>
                /\ Rows[i].base_score = 0
                /\ Rows[i].boosted_score = 0
                /\ Rows[i].priority_score = IF Flat THEN 50 * Cents ELSE 0

\* A gated record scored next to a record with another boosted score, under a
\* weighted sum that would not have been 0 for it.
C2_Witness ==
    /\ Returned
    /\ ~Flat
    /\ \E i \in DOMAIN Rows :
          /\ Gated(Rows[i])
          /\ WeightedSum(Rows[i], weights, DOMAIN weights \cap result.columns) # 0

\* C3: whenever all boosted scores of a non-empty batch are equal, the
\* normalizer gives every record priority_score 50 (both PartScorer variants).
C3_FlatBatchGetsMidpoint ==
    (Returned /\ Rows # <<>> /\ Flat) =>
        /\ \A i \in DOMAIN Rows : Rows[i].priority_score = 50 * Cents
        /\ \A i \in DOMAIN Rows :
              package_normalize_scores(Column(result, "boosted_score"))[i] = 50 * Cents

\* A batch of several records whose boosted scores are all equal and not 0.
C3_Witness ==
    /\ Returned
    /\ Len(Rows) >= 2
    /\ Flat
    /\ Rows[1].boosted_score # 0

\* C4: after the boost step every record whose leadtime_weeks == 0 has
\* boosted_score >= base_score.
C4_BoostNeverDecreases ==
    Returned =>
        \A i \in DOMAIN Rows :
            ("leadtime_weeks" \in result.columns
                /\ ~IsNull(Rows[i], "leadtime_weeks")
                /\ Rows[i].leadtime_weeks = 0)
            => Rows[i].boosted_score >= Rows[i].base_score

\* C5: the returned rows are ordered by non-increasing priority_score.
C5_SortedDescending ==
    Returned =>
        \A i \in 1..(Len(Rows) - 1) :
            Rows[i].priority_score >= Rows[i + 1].priority_score

\* A returned batch whose best record was not the first record of the input.
C5_Witness ==
    /\ Returned
    /\ Len(Rows) >= 2
    /\ Rows[1].priority_score > Rows[Len(Rows)].priority_score
    /\ Rows[1].index # 1

\* C6: returned rows with equal priority_score keep their input order.
C6_TiesKeepInputOrder ==
    Returned =>
        \A i, j \in DOMAIN Rows :
            (i < j /\ Rows[i].priority_score = Rows[j].priority_score)
            => Rows[i].index < Rows[j].index

\* C7: the output has exactly the rows of the input: as many, and every input
\* record once.
C7_CardinalityPreserved ==
    Returned =>
        /\ Len(Rows) = Len(Given.rows)
        /\ \A k \in DOMAIN Given.rows :
              Cardinality({i \in DOMAIN Rows :
                             /\ Rows[i].index = k
                             /\ Rows[i].pn = Given.rows[k].pn
                             /\ Rows[i].inventory = Given.rows[k].inventory}) = 1

\* A batch of several records, one of them gated to score 0, has been scored.
C7_Witness ==
    /\ Returned
    /\ Len(Given.rows) >= 2
    /\ \E i \in DOMAIN Rows : Gated(Rows[i]) /\ Rows[i].priority_score = 0

\* C8: a call on a batch returns the same sequence of priority_score values as
\* the first call on that batch did, whatever was scored in between.
C8_Deterministic ==
    called = "batch" => Column(result, "priority_score") = first.scores

\* The batch has been scored again after the other batch was scored, the final
\* scaler having been fitted.
C8_Witness ==
    /\ called = "batch"
    /\ first.again
    /\ warmed
    /\ final_scaler.fitted
    /\ Len(Rows) >= 2
    /\ ~Flat

\* C9: for an empty batch the result has no rows and carries base_score,
\* boosted_score, priority_score and score_percentile.
C9_EmptyResultSchema ==
    (Returned /\ Given.rows = <<>>) =>
        /\ Rows = <<>>
        /\ {"base_score", "boosted_score", "priority_score", "score_percentile"}
              \subseteq result.columns

\* C10 as claimed: in a batch whose boosted scores are not all equal, a
\* boosted_score of 0 gets priority_score 0, the largest positive boosted score
\* gets 100 and the smallest positive one gets the floor 1.
C10_MinMaxExtremes ==
    (Returned /\ ~Flat) =>
        \A i \in DOMAIN Rows :
            /\ Rows[i].boosted_score = 0 => Rows[i].priority_score = 0
            /\ (Rows[i].boosted_score > 0
                   /\ Rows[i].boosted_score = SetMax(PositiveBoosted))
                => Rows[i].priority_score = FeatureRangeMax * Cents
            /\ (Rows[i].boosted_score > 0
                   /\ Rows[i].boosted_score = SetMin(PositiveBoosted))
                => Rows[i].priority_score = FeatureRangeMin * Cents

\* C10 as amended: in a batch whose boosted scores are not all equal, a
\* boosted_score of 0 gets priority_score 0, every positive boosted score gets
\* a priority_score in [1,100], the smallest positive one gets the floor 1, and
\* the largest positive one gets 100 when the positive scores are not all
\* equal (when they are all equal, each gets the floor 1).
C10_MinMaxExtremesIfDistinct ==
    (Returned /\ ~Flat) =>
        \A i \in DOMAIN Rows :
            /\ Rows[i].boosted_score = 0 => Rows[i].priority_score = 0
            /\ Rows[i].boosted_score > 0 =>
                  /\ Rows[i].priority_score >= FeatureRangeMin * Cents
                  /\ Rows[i].priority_score <= FeatureRangeMax * Cents
            /\ (Rows[i].boosted_score > 0
                   /\ Rows[i].boosted_score = SetMin(PositiveBoosted))
                => Rows[i].priority_score = FeatureRangeMin * Cents
            /\ (Rows[i].boosted_score > 0
                   /\ Rows[i].boosted_score = SetMax(PositiveBoosted)
                   /\ Cardinality(PositiveBoosted) >= 2)
                => Rows[i].priority_score = FeatureRangeMax * Cents

\* A batch with a zero boosted score and two different positive ones.
C10_Witness ==
    /\ Returned
    /\ Cardinality(PositiveBoosted) >= 2
    /\ \E i \in DOMAIN Rows : Rows[i].boosted_score = 0 /\ Rows[i].priority_score = 0
    /\ \E i \in DOMAIN Rows : Rows[i].priority_score = FeatureRangeMax * Cents

-----------------------------------------------------------------------------
\* Properties of the boost step and of the aggregator

\* The row of the given batch the returned row r was computed from.
GivenRow(r) == Given.rows[r.index]

\* The predicate of a canonical boost rule on a raw record g; a comparison with
\* a null is False.
CanonicalRule(name, g) ==
    CASE name = "ample_stock" ->
            ~IsNull(g, "inventory") /\ ~IsNull(g, "moq") /\ g.inventory >= 10 * g.moq
      [] name = "immediate_ship" ->
            ~IsNull(g, "leadtime_weeks") /\ g.leadtime_weeks = 0
      [] name = "authorized_source" ->
            ~IsNull(g, "source_type") /\ g.source_type = "Authorized"
      [] name = "high_demand" ->
            ~IsNull(g, "demand_all_time") /\ g.demand_all_time > 100

\* score times the multipliers of the canonical rules that hold for g, in the
\* fixed order of the rules.
RECURSIVE Compounded(_, _, _)
Compounded(score, g, boosts) ==
    IF boosts = <<>> THEN score
    ELSE Compounded(IF CanonicalRule(Head(boosts).name, g)
                    THEN (score * Head(boosts).multiplier) \div 100
                    ELSE score,
                    g, Tail(boosts))

\* C11: in a batch that has every raw column, the boosted_score of every
\* returned record is its base_score multiplied by the multipliers of exactly
\* the canonical rules whose predicate holds for the raw record (ample_stock,
\* immediate_ship, authorized_source, high_demand with demand_all_time > 100),
\* compounded in that order; a record matching no rule keeps its base_score.
C11_BoostsCompound ==
    (Returned /\ Given.columns = RawColumns) =>
        \A i \in DOMAIN Rows :
            Rows[i].boosted_score
                = Compounded(Rows[i].base_score, GivenRow(Rows[i]), boost_conditions)

\* The contribution of weight-table feature f to the base score of the
\* returned row r: nothing when the table has no such weight, when f is not a
\* column, or when the cell is null.
Contribution(r, f) ==
    IF f \in DOMAIN weights /\ f \in result.columns /\ ~IsNull(r, f)
    THEN r[f] * weights[f]
    ELSE 0

\* C12: the base_score of every returned record that is not gated is the sum
\* of weight[f] * value(f) over the weight-table features that are columns of
\* the engineered batch; a weight whose feature is not a column adds nothing,
\* and a null value counts as 0.
C12_WeightedSumOfPresentFeatures ==
    Returned =>
        \A i \in DOMAIN Rows :
            ~Gated(Rows[i]) =>
                Rows[i].base_score
                    = ( Contribution(Rows[i], "demand_score")
                      + Contribution(Rows[i], "availability_score")
                      + Contribution(Rows[i], "inv_leadtime_weeks")
                      + Contribution(Rows[i], "inv_moq")
                      + Contribution(Rows[i], "is_authorized") ) \div 100

\* A returned batch with a record that is not gated, scored with a weight
\* table that names a feature the engineered batch does not have.
C12_Witness ==
    /\ Returned
    /\ \E f \in DOMAIN weights : f \notin result.columns
    /\ \E i \in DOMAIN Rows : ~Gated(Rows[i])
    /\ \E f \in DOMAIN weights : f \in result.columns

-----------------------------------------------------------------------------
\* Properties of the configured boost steps

\* Handling the entry fails on the batch: the entry lacks a key, its condition
\* has no recognized shape, or its condition names a field the batch lacks.
RuleFails(e) ==
    \/ e.keys # {"condition", "multiplier"}
    \/ e.condition \notin {"inventory >= 10 * moq", "leadtime_weeks == 0"}
    \/ \E f \in Names(e.condition) : f \notin batch.columns

\* The base score of row i times the multipliers of the rules of config that
\* do not fail and whose condition holds for the row, in the order of config.
RECURSIVE SkippingFailed(_, _, _)
SkippingFailed(score, i, config) ==
    IF config = <<>> THEN score
    ELSE SkippingFailed(IF ~RuleFails(Head(config)) /\ Holds(Head(config).condition, batch.rows[i])
                        THEN (score * Head(config).multiplier) \div 100
                        ELSE score,
                        i, Tail(config))

\* The boost step left every record with its base score times the multipliers
\* of the rules that did not fail and that match it.
FailedRulesSkipped ==
    /\ ~boosted.raised
    /\ boosted.scores
         = [i \in DOMAIN batch.rows |->
               SkippingFailed(batch.rows[i].base_score, i, boost_config)]

\* C13 as claimed: when handling a boost rule fails, that rule changes no
\* record's boosted_score, every other rule is still applied to the records it
\* matches, and the boost step does not raise.
C13_FailedRuleSkipped ==
    boosted.by # "none" => FailedRulesSkipped

\* C13 for the boost step of EnhancedPartScorer alone.
C13_EnhancedFailedRuleSkipped ==
    boosted.by = "enhanced" => FailedRulesSkipped

\* C13 for the boost step of ComponentScorer when every entry of the
\* configuration has its condition and its multiplier.
C13_ComponentFailedRuleSkipped ==
    (boosted.by = "component"
        /\ \A k \in DOMAIN boost_config :
              boost_config[k].keys = {"condition", "multiplier"})
    => FailedRulesSkipped

-----------------------------------------------------------------------------
\* Properties of PartScorer and EnhancedPartScorer on one batch

\* PartScorer.calculate_scores returned one row with a priority_score for
\* every record of the batch.
PartScorerScoredAll ==
    /\ Len(result.rows) = Len(batch.rows)
    /\ "priority_score" \in result.columns
    /\ {result.rows[i].index : i \in DOMAIN result.rows} = DOMAIN batch.rows

\* EnhancedPartScorer.calculate_scores did not raise and returned one row
\* with a priority_score for every record of the batch.
EnhancedScoredAll ==
    /\ ~enhanced.raised
    /\ Len(enhanced.frame.rows) = Len(batch.rows)
    /\ "priority_score" \in enhanced.frame.columns

\* C14 as claimed: for a batch that has only some of the raw columns, neither
\* PartScorer.calculate_scores nor EnhancedPartScorer.calculate_scores raises,
\* and each returns one row with a priority_score per input record.
C14_MissingColumnsNotFatal ==
    /\ called = "batch" => PartScorerScoredAll
    /\ enhanced.called => EnhancedScoredAll

\* C14 for PartScorer alone.
C14_PartScorerMissingColumnsNotFatal ==
    called = "batch" => PartScorerScoredAll

\* C14 for EnhancedPartScorer on the batches that have the inventory and the
\* leadtime_weeks columns.
C14_EnhancedMissingOtherColumnsNotFatal ==
    (enhanced.called /\ {"inventory", "leadtime_weeks"} \subseteq batch.columns)
    => EnhancedScoredAll

-----------------------------------------------------------------------------
\* Properties of the ranking

\* Twice the average rank of returned row i among the priority scores of the
\* batch: the ranks of tied rows are averaged.
TwiceAverageRank(i) ==
    LET lower == {j \in DOMAIN Rows : Rows[j].priority_score < Rows[i].priority_score}
        tied  == {j \in DOMAIN Rows : Rows[j].priority_score = Rows[i].priority_score}
    IN  2 * Cardinality(lower) + Cardinality(tied) + 1

\* C16: the score_percentile of a returned record is its average rank among the
\* priority scores of the batch, divided by the batch size, times 100; records
\* with the same priority_score have the same percentile, a record with a
\* higher priority_score never has a lower percentile, and every percentile is
\* in (0,100].
C16_PercentileIsAverageRank ==
    (Returned /\ Rows # <<>>) =>
        /\ \A i \in DOMAIN Rows :
              /\ Rows[i].score_percentile
                    = (TwiceAverageRank(i) * 50 * SCALE) \div Len(Rows)
              /\ Rows[i].score_percentile > 0
              /\ Rows[i].score_percentile <= 100 * SCALE
        /\ \A i, j \in DOMAIN Rows :
              /\ Rows[i].priority_score = Rows[j].priority_score
                    => Rows[i].score_percentile = Rows[j].score_percentile
              /\ Rows[i].priority_score > Rows[j].priority_score
                    => Rows[i].score_percentile >= Rows[j].score_percentile

\* A returned batch of three records, two of them with the same priority_score.
C16_Witness ==
    /\ Returned
    /\ Len(Rows) = 3
    /\ \E i, j, k \in DOMAIN Rows :
          /\ i # j
          /\ Rows[i].priority_score = Rows[j].priority_score
          /\ Rows[k].priority_score # Rows[i].priority_score

-----------------------------------------------------------------------------
\* Properties of the normalizers

\* C17: every normalizer preserves order: for any two records i and j of a
\* series, boosted[i] <= boosted[j] implies priority[i] <= priority[j],
\* whatever the mix of negative, zero and positive boosted scores.
C17_NormalizationPreservesOrder ==
    normalized.by # "none" =>
        /\ DOMAIN normalized.out = DOMAIN raw_scores
        /\ \A i, j \in DOMAIN raw_scores :
              raw_scores[i] <= raw_scores[j] => normalized.out[i] <= normalized.out[j]

\* PartScorer has normalized a series with a negative, a zero and a positive
\* score.
C17_Witness ==
    /\ normalized.by = "part"
    /\ \E i, j, k \in DOMAIN raw_scores :
          raw_scores[i] < 0 /\ raw_scores[j] = 0 /\ raw_scores[k] > 0

-----------------------------------------------------------------------------
\* Properties of a scorer instance across calls

\* C18: whatever calls the scorer instance has served before, the
\* priority_score it returns for each record of a batch is the one a fresh
\* scorer instance with the same weights returns for that batch alone.
C18_NoStateSurvives ==
    (Returned /\ Rows # <<>>) =>
        \E fresh \in {Column(Scored(Given, weights, Unfitted).frame, "priority_score")} :
            \A i \in DOMAIN Rows : Rows[i].priority_score = fresh[Rows[i].index]

\* The scorer has scored the other batch, its final scaler holds that fit, and
\* it has then scored the caller's batch for the first time: a batch with
\* positive boosted scores that are not all equal.
C18_Witness ==
    /\ called = "batch"
    /\ warmed
    /\ first.seen /\ ~first.again
    /\ ~Flat
    /\ Cardinality(PositiveBoosted) >= 2

\* The two rows hold the same raw record.
SameRecord(r, q) ==
    /\ \A f \in RawColumns : r[f] = q[f]
    /\ r.nulls \cap RawColumns = q.nulls \cap RawColumns

\* Batches that share the record P1: alone, with an unavailable part, and
\* with two available parts.
SharedRecordBatches ==
    { DataFrame(RawColumns, << Part("P1", 100, 0, 1, 200, "Authorized", {}) >>),
      DataFrame(RawColumns, << Part("P1", 100, 0, 1, 200, "Authorized", {}),
                               Part("P5", 0, 16, 1, 200, "Authorized", {}) >>),
      OtherBatch }

\* C19: scores are batch-relative: with the weights of the scorer there are two
\* batches that hold the same raw record and in whose scored results that
\* record has different priority scores.
C19_ScoresAreBatchRelative ==
    \E scored \in {[B \in SharedRecordBatches |->
                        Scored(B, weights, Unfitted).frame.rows]} :
        \E B1, B2 \in SharedRecordBatches :
            \E i \in DOMAIN scored[B1], j \in DOMAIN scored[B2] :
                /\ SameRecord(B1.rows[scored[B1][i].index],
                              B2.rows[scored[B2][j].index])
                /\ scored[B1][i].priority_score # scored[B2][j].priority_score

\* One scorer has scored the caller's batch, a single record, and then the
\* other batch, which holds the same raw record, and has returned a different
\* priority_score for it.
C19_Witness ==
    /\ called = "other"
    /\ first.seen
    /\ Len(batch.rows) = 1
    /\ batch.columns = RawColumns
    /\ \E i \in DOMAIN Rows :
          /\ SameRecord(OtherBatch.rows[Rows[i].index], batch.rows[1])
          /\ Rows[i].priority_score # first.scores[1]

-----------------------------------------------------------------------------
\* Properties of validate_batch

\* A validator was given the caller's batch, which has no 'pn' column.
ValidatedWithoutPn == report.by # "none" /\ "pn" \notin batch.columns

\* C20: validate_batch on a batch without the 'pn' column returns a report with
\* is_valid False and a quality_score of at most 75, whatever the other columns
\* and values of the batch are.
C20_MissingPnReported ==
    ValidatedWithoutPn =>
        /\ ~report.raised
        /\ ~report.is_valid
        /\ report.quality_score <= 75 * SCALE

\* The same for the validator of part_priority_scoring and, for a batch that
\* has a column, for the validator of src/src/utils.
C20_MissingPnReportedGivenAColumn ==
    (ValidatedWithoutPn /\ (report.by = "validators" => batch.columns # {})) =>
        /\ ~report.raised
        /\ ~report.is_valid
        /\ report.quality_score <= 75 * SCALE

\* The validator of src/src/utils/validators.py has returned a report.
Reported == report.by = "validators" /\ ~report.raised

\* The number of issues of the report with the severity.
Issues(severity) ==
    Cardinality({i \in DOMAIN report.issues : report.issues[i].severity = severity})

\* The cells of the validated batch that are not null.
Cells ==
    Cardinality({c \in (DOMAIN batch.rows) \X batch.columns :
                    ~IsNull(batch.rows[c[1]], c[2])})

\* Twice the number of cells of the validated batch.
TwiceSize == 2 * Len(batch.rows) * Cardinality(batch.columns)

\* TwiceSize times max(0, (95 - average field coverage percentage) * 0.5); the
\* average is Cells * 100 / (rows * columns). A batch without rows has no
\* average (NaN), and max(0, NaN) is 0.
CoveragePenalty == Max2(0, 95 * (TwiceSize \div 2) - 100 * Cells)

\* TwiceSize times 100 - 25 * critical - 10 * warning - 2 * info - penalty.
Unclamped ==
    (100 - 25 * Issues("critical") - 10 * Issues("warning") - 2 * Issues("info"))
        * TwiceSize
    - CoveragePenalty

\* C21: the quality score of every report is 100 minus 25 per critical, 10 per
\* warning and 2 per info issue, minus max(0, (95 - average field coverage) * 0.5),
\* kept within 0 and 100 (here to the nearest 1/SCALE), so it lies in [0, 100].
C21_QualityScoreFormula ==
    Reported =>
        /\ report.quality_score \in 0..(100 * SCALE)
        /\ IF Len(batch.rows) = 0
           THEN report.quality_score
                    = Max2(0, 100 - 25 * Issues("critical") - 10 * Issues("warning")
                                  - 2 * Issues("info")) * SCALE
           ELSE \E exact \in {Min2(100 * TwiceSize, Max2(0, Unclamped)) * SCALE} :
                    /\ 2 * (report.quality_score * TwiceSize - exact) <= TwiceSize
                    /\ 2 * (exact - report.quality_score * TwiceSize) <= TwiceSize

\* A report with an issue of every severity and a coverage penalty.
C21_Witness ==
    /\ Reported
    /\ Issues("critical") > 0 /\ Issues("warning") > 0 /\ Issues("info") > 0
    /\ Len(batch.rows) > 0
    /\ CoveragePenalty > 0
    /\ report.quality_score > 0

\* A report whose penalties exceed 100 points.
C21_FloorReached == Reported /\ Len(batch.rows) > 0 /\ Unclamped < 0

\* A validator was given the caller's batch, which has no rows.
ValidatedEmpty == report.by = "validators" /\ Len(batch.rows) = 0

\* C22: validate_batch on a batch without rows, with or without columns,
\* returns a report with total_rows 0, valid_rows 0, is_valid False and a
\* critical issue for the empty batch.
C22_EmptyBatchReported ==
    ValidatedEmpty =>
        /\ ~report.raised
        /\ report.total_rows = 0
        /\ report.valid_rows = 0
        /\ ~report.is_valid
        /\ \E i \in DOMAIN report.issues :
              /\ report.issues[i].type = "empty_dataframe"
              /\ report.issues[i].severity = "critical"

\* The same for a batch that has a column.
C22_EmptyBatchReportedGivenAColumn ==
    (ValidatedEmpty /\ batch.columns # {}) =>
        /\ ~report.raised
        /\ report.total_rows = 0
        /\ report.valid_rows = 0
        /\ ~report.is_valid
        /\ \E i \in DOMAIN report.issues :
              /\ report.issues[i].type = "empty_dataframe"
              /\ report.issues[i].severity = "critical"

-----------------------------------------------------------------------------
\* Properties of the pipelines

\* The last batch was validated in the sample pipeline of a production
\* environment and its report says it is not valid.
GatedByPolicy ==
    /\ etl.mode = "sample"
    /\ environment = "production"
    /\ etl.last.validated
    /\ ~etl.last.is_valid

\* C23: validation gates scoring only in the sample pipeline in production:
\* there a report that is not valid raises ValueError before calculate_scores
\* and save_results are called; in every other environment, and in the batch
\* pipeline in every environment, the batch is scored and saved whatever the
\* report says.
C23_ValidationGatesOnlySampleProduction ==
    etl.last.validated =>
        IF GatedByPolicy
        THEN /\ etl.status = "raised" /\ etl.error = "ValueError"
             /\ ~etl.last.score_called /\ ~etl.last.save_called
        ELSE etl.last.scored /\ etl.last.save_called

\* The control flow alone: outside the gated case calculate_scores is called
\* whatever the report says, and save_results is called when it returns.
C23_ReportNotConsultedElsewhere ==
    etl.last.validated =>
        IF GatedByPolicy
        THEN /\ etl.status = "raised" /\ etl.error = "ValueError"
             /\ ~etl.last.score_called /\ ~etl.last.save_called
        ELSE /\ etl.last.score_called
             /\ etl.last.save_called <=> etl.last.scored

\* C27: a failure while processing a batch is caught and the loop goes on; the
\* batch pipeline aborts only with RuntimeError, only in production and only
\* when failed_batches exceeds 5, which is at the 6th failed batch.
C27_OnlyTooManyFailuresAbort ==
    etl.mode = "batch" =>
        /\ etl.status = "raised" =>
              /\ etl.error = "RuntimeError"
              /\ environment = "production"
              /\ pipeline_metrics.failed_batches = 6
        /\ (environment = "production" /\ pipeline_metrics.failed_batches > 5)
              => etl.status = "raised"

\* The same for a pipeline whose metrics have the 'total_components' key.
C27_OnlyTooManyFailuresAbortGivenTheKey ==
    (etl.mode = "batch" /\ "total_components" \in pipeline_metrics.keys) =>
        /\ etl.status = "raised" =>
              /\ etl.error = "RuntimeError"
              /\ environment = "production"
              /\ pipeline_metrics.failed_batches = 6
        /\ (environment = "production" /\ pipeline_metrics.failed_batches > 5)
              => etl.status = "raised"

\* C28: in the batch pipeline of a pipeline with the metric keys of __init__,
\* after every iteration total_batches is successful_batches + failed_batches.
C28_BatchCountsAddUp ==
    (etl.mode = "batch" /\ pipeline_metrics.keys = InitialMetrics.keys) =>
        pipeline_metrics.total_batches
            = pipeline_metrics.successful_batches + pipeline_metrics.failed_batches

\* The same for a pipeline whose metrics have the 'total_components' key.
C28_BatchCountsAddUpGivenTheKey ==
    (etl.mode = "batch" /\ "total_components" \in pipeline_metrics.keys) =>
        pipeline_metrics.total_batches
            = pipeline_metrics.successful_batches + pipeline_metrics.failed_batches

-----------------------------------------------------------------------------
\* Properties of the loader

\* C24: _execute_query attempts a query at most 3 times; every attempt before
\* the last one failed with GoogleCloudError, after which it waited 5 s the
\* first time and 10 s the second time; it returns at the first success, raises
\* the GoogleCloudError of the third attempt without waiting, and raises any
\* other exception at once.
C24_AtMostThreeAttemptsWithBackoff ==
    query.status # "none" =>
        \E n \in {Len(query.outcomes)} :
            /\ n <= 3
            /\ \A k \in 1..(n - 1) : query.outcomes[k] = "GoogleCloudError"
            /\ query.slept
                  = SubSeq(<<5, 10>>, 1,
                           Cardinality({k \in 1..Min2(n, 2) :
                                           query.outcomes[k] = "GoogleCloudError"}))
            /\ query.status = "returned" <=> (n > 0 /\ query.outcomes[n] = "ok")
            /\ query.status = "raised"
                  <=> /\ n > 0
                      /\ \/ query.outcomes[n] = "Exception"
                         \/ n = 3 /\ query.outcomes[n] = "GoogleCloudError"
            /\ query.status = "raised" => query.error = query.outcomes[n]

\* A query has failed three times with GoogleCloudError.
C24_Witness ==
    /\ query.status = "raised"
    /\ query.error = "GoogleCloudError"
    /\ Len(query.outcomes) = 3
    /\ query.slept = <<5, 10>>

\* The yielded batches that hold record i.
Deliveries(i) == {k \in DOMAIN loader.yielded : i \in loader.yielded[k]}

\* C25: when no query fails, every record whose bucket is at or above the
\* start offset is in exactly one yielded batch when the generator finishes.
C25_EveryRecordDeliveredOnce ==
    (loader.status = "done" /\ ~loader.error) =>
        \A i \in DOMAIN warehouse.buckets :
            warehouse.buckets[i] >= warehouse.offset
                => Cardinality(Deliveries(i)) = 1

\* No record is delivered twice, and none from below the start offset.
C25_NoRecordDeliveredTwice ==
    \A i \in DOMAIN warehouse.buckets :
        /\ Cardinality(Deliveries(i)) <= 1
        /\ warehouse.buckets[i] < warehouse.offset => Deliveries(i) = {}

\* The requests are at offset, offset + batch_size, ...; every yielded batch is
\* non-empty and the results are yielded in order, save the empty one; the
\* generator went on only after results with batch_size rows or more, and it
\* has ended exactly if a query raised, which it swallows, or the last result
\* was empty or had fewer rows than batch_size.
LoaderSafe ==
    /\ \A k \in DOMAIN loader.requested :
          loader.requested[k] = warehouse.offset + (k - 1) * warehouse.batch_size
    /\ \A k \in DOMAIN loader.yielded : loader.yielded[k] # {}
    /\ loader.yielded = SelectSeq(loader.results, LAMBDA r : r # {})
    /\ \A k \in 1..(Len(loader.results) - 1) :
          Cardinality(loader.results[k]) >= warehouse.batch_size
    /\ loader.error => query.status = "raised"
    /\ loader.status \in {"none", "ready", "waiting", "done"}
    /\ loader.status = "done"
          <=> \/ loader.error
              \/ /\ loader.results # <<>>
                 /\ Cardinality(loader.results[Len(loader.results)])
                       < warehouse.batch_size

\* C26: load_batch_data always finishes; it requests batches at strictly
\* increasing offsets and ends at the first empty result, right after the first
\* result with fewer than batch_size rows, or at the first query error.
C26_LoadAlwaysFinishes == [](LoaderSafe) /\ <>(loader.status = "done")

\* The generator has yielded two batches and ended after the short second one.
C26_Witness ==
    /\ loader.status = "done"
    /\ ~loader.error
    /\ Len(loader.yielded) = 2
    /\ Len(loader.results) = 2

-----------------------------------------------------------------------------
\* Properties of merge_datasets and _merge_datasets

\* The pn_clean values of some rows.
PnCleans(rows) == {rows[i].pn_clean : i \in DOMAIN rows}

\* The first row of the part frame with a pn_clean.
FirstPart(c) ==
    panda_df.rows[CHOOSE i \in DOMAIN panda_df.rows :
                    /\ panda_df.rows[i].pn_clean = c
                    /\ \A j \in 1..(i - 1) : panda_df.rows[j].pn_clean # c]

\* The positions of the demand rows of a pn.
DemandOf(pn) == {k \in DOMAIN demand_df.rows : demand_df.rows[k].pn = pn}

\* The first demand row of a pn.
FirstDemand(pn) ==
    demand_df.rows[CHOOSE k \in DemandOf(pn) : \A j \in DemandOf(pn) : k <= j]

\* The demand cells of a merged row are missing: null after merge_datasets,
\* 0 after _merge_datasets.
DemandMissing(r) ==
    /\ r.demand_all_time = 0
    /\ r.demand_index = 0
    /\ r.nulls = IF merge_result.by = "scripts"
                 THEN {"demand_all_time", "demand_index"} ELSE {}

\* A merge of a part frame with a pn_clean column has been done.
MergedByPnClean ==
    /\ merge_result.by # "none"
    /\ "pn_clean" \in panda_df.columns

\* C29: the merged frame has exactly one row per distinct pn_clean of the part
\* frame and no other row; the row is the first part row of that pn_clean,
\* with the cells of the first demand row of its pn, or with missing demand
\* cells if no demand row has its pn; with distinct pn_clean values the
\* merged frame has as many rows as the part frame.
C29_MergeKeepsFirstRowPerPnClean ==
    MergedByPnClean =>
        /\ \A c \in PnCleans(panda_df.rows) :
              Cardinality({i \in DOMAIN merge_result.rows :
                              merge_result.rows[i].pn_clean = c}) = 1
        /\ PnCleans(merge_result.rows) = PnCleans(panda_df.rows)
        /\ \A i \in DOMAIN merge_result.rows :
              /\ merge_result.rows[i].pn
                     = FirstPart(merge_result.rows[i].pn_clean).pn
              /\ IF DemandOf(merge_result.rows[i].pn) = {}
                 THEN DemandMissing(merge_result.rows[i])
                 ELSE /\ merge_result.rows[i].nulls = {}
                      /\ merge_result.rows[i].demand_all_time
                             = FirstDemand(merge_result.rows[i].pn).demand_all_time
                      /\ merge_result.rows[i].demand_index
                             = FirstDemand(merge_result.rows[i].pn).demand_index
        /\ (Cardinality(PnCleans(panda_df.rows)) = Len(panda_df.rows)
               => Len(merge_result.rows) = Len(panda_df.rows))

\* A merge of two parts with distinct pn_clean values: the first has no
\* demand row and is kept, the second has two demand rows and is kept once.
C29_Witness ==
    /\ MergedByPnClean
    /\ Len(panda_df.rows) = 2
    /\ Len(merge_result.rows) = 2
    /\ DemandOf(panda_df.rows[1].pn) = {}
    /\ Cardinality(DemandOf(panda_df.rows[2].pn)) = 2
    /\ DemandMissing(merge_result.rows[1])

\* A merge that dropped a part row with the pn_clean of an earlier one while a
\* demand row matched no part.
C29_DuplicateDropped ==
    /\ MergedByPnClean
    /\ Len(merge_result.rows) < Len(panda_df.rows)
    /\ \E k \in DOMAIN demand_df.rows :
          \A i \in DOMAIN panda_df.rows :
              panda_df.rows[i].pn # demand_df.rows[k].pn

\* Without a pn_clean column nothing is dropped: the merged frame is the
\* left join.
C29_NoPnCleanNoDeduplication ==
    (merge_result.by # "none" /\ "pn_clean" \notin panda_df.columns) =>
        Len(merge_result.rows) >= Len(panda_df.rows)

-----------------------------------------------------------------------------
\* Properties of score_parts

\* The weight score_parts is to give feature f: the one weights_config names,
\* else the default one, else none.
Overridden(f) ==
    IF f \in DOMAIN weights_config THEN weights_config[f]
    ELSE IF f \in DOMAIN DefaultWeights THEN DefaultWeights[f]
    ELSE 0

\* What feature f adds to the base score of the returned row r under the
\* overridden weights.
Share(r, f) ==
    IF f \in result.columns /\ ~IsNull(r, f) THEN r[f] * Overridden(f) ELSE 0

\* C30: score_parts(df, weights_config=W) scores with the default table
\* overridden by W key by key: the scorer's table names the default features
\* and those of W, a feature W names has W's weight, a default feature W does
\* not name keeps its default weight and adds its share to the base_score of
\* every record that is not gated, and the table equals W only if W names
\* every default feature.
C30_WeightsOverriddenKeyByKey ==
    Returned =>
        /\ DOMAIN weights = (DOMAIN DefaultWeights) \cup (DOMAIN weights_config)
        /\ \A f \in DOMAIN weights : weights[f] = Overridden(f)
        /\ \A i \in DOMAIN Rows :
              ~Gated(Rows[i]) =>
                  Rows[i].base_score
                      = ( Share(Rows[i], "demand_score")
                        + Share(Rows[i], "availability_score")
                        + Share(Rows[i], "inv_leadtime_weeks")
                        + Share(Rows[i], "inv_moq")
                        + Share(Rows[i], "is_authorized")
                        + Share(Rows[i], "has_datasheet") ) \div 100
        /\ (weights = weights_config
               => (DOMAIN DefaultWeights) \subseteq (DOMAIN weights_config))

\* A batch scored with the weights of test_custom_weights, which do not name
\* inv_moq: a record that is not gated has a positive inv_moq, which adds its
\* default share to the base score.
C30_Witness ==
    /\ Returned
    /\ weights_config = CustomWeights
    /\ weights # weights_config
    /\ \E i \in DOMAIN Rows :
          /\ ~Gated(Rows[i])
          /\ Share(Rows[i], "inv_moq") > 0
          /\ Rows[i].base_score
                 > ( Share(Rows[i], "demand_score")
                   + Share(Rows[i], "availability_score")
                   + Share(Rows[i], "inv_leadtime_weeks")
                   + Share(Rows[i], "is_authorized") ) \div 100

\* A batch scored with a table that names every default feature: the
\* scorer's table is the argument.
C30_EveryFeatureNamed ==
    /\ Returned
    /\ Rows # <<>>
    /\ weights_config = EvenWeights
    /\ weights = weights_config

====
